---------------------------- MODULE Spec2Model ----------------------------
(***************************************************************************)
(* RC5-Rust: the RC5 block cipher (key schedule, block transform), the     *)
(* ECB / CBC / CTR modes, PKCS#7 padding and the Cipher facade.            *)
(*                                                                         *)
(* The repository holds three source trees of the same library:            *)
(*   rc5-block  lib.rs, modes.rs, utils.rs                                 *)
(*   rc5-rs     rc5.rs, types.rs, utils.rs (lib.rs and modes.rs as in      *)
(*              rc5-block)                                                 *)
(*   src        lib.rs, modes.rs, rc5.rs, utils.rs (the first version)     *)
(* The variable `crate` says which tree's code is running.                 *)
(*                                                                         *)
(* A word of w bits (w in 16, 32, 64, 128) is a sequence of w/16 limbs of  *)
(* 16 bits, least significant limb first, so that no value exceeds the     *)
(* range of the model checker's integers.  A byte is a number in 0..255.   *)
(***************************************************************************)
EXTENDS Integers, Sequences, FiniteSets, TLC

(***************************************************************************)
(* Bounds of the model.                                                    *)
(***************************************************************************)
\* longest enumerated padding buffer
MaxLen == 4
\* largest byte value in enumerated padding buffers
MaxByte == 3
\* largest enumerated block size handed to pkcs7
MaxBs == 4
\* largest enumerated round count
MaxRounds == 2
\* whole blocks in the longest enumerated message
MaxBlocks == 2

(***************************************************************************)
(* Program constants.                                                      *)
(***************************************************************************)
MAX_ROUNDS == 255
MAX_KEY_BYTES == 255
\* number of values of a u8 (`as u8` keeps a value modulo this)
U8Range == 256
\* number of values of one 16-bit limb
LimbRange == 65536
LimbBits == 16

Crates == {"rc5-block", "rc5-rs", "src"}
\* impl_word_for_prim!(u16, u32, u64, u128)
Widths == {16, 32, 64, 128}

(***************************************************************************)
(* Result<T, Reason>, and a panic as a third outcome.                      *)
(***************************************************************************)
NoReason == [kind |-> "none", msg |-> "", n |-> 0, m |-> 0]
Ok(v)    == [tag |-> "Ok", val |-> v, err |-> NoReason]
Err(e)   == [tag |-> "Err", val |-> <<>>, err |-> e]
Panic    == [tag |-> "Panic", val |-> <<>>, err |-> NoReason]
\* Option::None
None     == [tag |-> "None", val |-> <<>>, err |-> NoReason]

\* lib.rs: enum Reason.  rc5-block and rc5-rs: Padding carries nothing;
\* src: Padding(String) carries a message
InvalidKey          == [kind |-> "InvalidKey", msg |-> "", n |-> 0, m |-> 0]
KeyTooLong(cur, sup) == [kind |-> "KeyTooLong", msg |-> "", n |-> cur, m |-> sup]
InvalidRounds(r)    == [kind |-> "InvalidRounds", msg |-> "", n |-> r, m |-> 0]
Padding             == [kind |-> "Padding", msg |-> "", n |-> 0, m |-> 0]
PaddingMsg(text, k) == [kind |-> "Padding", msg |-> text, n |-> k, m |-> 0]

(***************************************************************************)
(* Arithmetic on bits.                                                     *)
(***************************************************************************)
RECURSIVE Pow2(_)
Pow2(n) == IF n = 0 THEN 1 ELSE 2 * Pow2(n - 1)

\* x ^ y on two numbers of n bits
RECURSIVE BitXor(_, _, _)
BitXor(x, y, n) ==
    IF n = 0 THEN 0
    ELSE ((x + y) % 2) + 2 * BitXor(x \div 2, y \div 2, n - 1)

Min(a, b) == IF a < b THEN a ELSE b
Max(a, b) == IF a > b THEN a ELSE b

(***************************************************************************)
(* types.rs: the Word trait, implemented for u16, u32, u64 and u128.       *)
(***************************************************************************)
NLimbs(w) == w \div LimbBits
\* Word::BYTES
BYTES(w) == w \div 8

\* n limbs of value zero
RECURSIVE Zeros(_)
Zeros(n) == IF n = 0 THEN <<>> ELSE <<0>> \o Zeros(n - 1)

\* Word::ZERO
ZERO(w) == Zeros(NLimbs(w))

\* magic_consts!: Word::P
P(w) ==
    CASE w = 16  -> <<47073>>
      [] w = 32  -> <<20835, 47073>>
      [] w = 64  -> <<10859, 35565, 20834, 47073>>
      [] w = 128 -> <<51253, 23789, 49248, 62364, 31765, 32586, 31161, 40503>>

\* magic_consts!: Word::Q
Q(w) ==
    CASE w = 16  -> <<40503>>
      [] w = 32  -> <<31161, 40503>>
      [] w = 64  -> <<31765, 32586, 31161, 40503>>
      [] w = 128 -> <<62407, 40180, 22656, 49009, 10858, 35565, 20834, 47073>>

\* Word::from_u8: val as $t
from_u8(val, w) == <<val>> \o Zeros(NLimbs(w) - 1)

\* limbs i.. of a + b, given the carry into limb i; the last carry is dropped
RECURSIVE AddLimbs(_, _, _, _)
AddLimbs(a, b, i, carry) ==
    IF i > Len(a) THEN <<>>
    ELSE LET sum == a[i] + b[i] + carry
         IN  <<sum % LimbRange>> \o AddLimbs(a, b, i + 1, sum \div LimbRange)

\* Word::wrapping_add
wrapping_add(a, b) == AddLimbs(a, b, 1, 0)

\* limbs i.. of a - b, given the borrow out of limb i - 1
RECURSIVE SubLimbs(_, _, _, _)
SubLimbs(a, b, i, borrow) ==
    IF i > Len(a) THEN <<>>
    ELSE LET diff == a[i] - b[i] - borrow
         IN  <<(diff + LimbRange) % LimbRange>>
             \o SubLimbs(a, b, i + 1, IF diff < 0 THEN 1 ELSE 0)

\* Word::wrapping_sub
wrapping_sub(a, b) == SubLimbs(a, b, 1, 0)

RECURSIVE XorLimbs(_, _, _)
XorLimbs(a, b, i) ==
    IF i > Len(a) THEN <<>>
    ELSE <<BitXor(a[i], b[i], LimbBits)>> \o XorLimbs(a, b, i + 1)

\* the ^ of std::ops::BitXor
Xor(a, b) == XorLimbs(a, b, 1)

\* `bits as u32` followed by the primitive's rotate, which takes the amount
\* modulo the width: the width divides 2^16, so only the lowest limb counts
RotAmount(bits, w) == bits[1] % w

\* limbs i.. of x rotated left by q whole limbs and r bits
RECURSIVE RotLimbs(_, _, _, _)
RotLimbs(x, q, r, i) ==
    IF i > Len(x) THEN <<>>
    ELSE LET L  == Len(x)
             hi == x[((i - q - 1 + L) % L) + 1]
             lo == x[((i - q - 2 + 2 * L) % L) + 1]
         IN  <<((hi * Pow2(r)) % LimbRange) + (lo \div Pow2(LimbBits - r))>>
             \o RotLimbs(x, q, r, i + 1)

\* the primitive rotate_left(n) on the limbs, 0 <= n < w
RotlBits(x, n) == RotLimbs(x, n \div LimbBits, n % LimbBits, 1)

\* Word::rotate_left
rotate_left(x, bits) == RotlBits(x, RotAmount(bits, LimbBits * Len(x)))

\* Word::rotate_right
rotate_right(x, bits) ==
    LET w == LimbBits * Len(x)
    IN  RotlBits(x, (w - RotAmount(bits, w)) % w)

\* the little-endian bytes of limbs i..
RECURSIVE LeBytes(_, _)
LeBytes(x, i) ==
    IF i > Len(x) THEN <<>>
    ELSE <<x[i] % U8Range, x[i] \div U8Range>> \o LeBytes(x, i + 1)

\* to_bytes_slice with the most significant byte first
to_bytes_slice_be(x) ==
    LET le == LeBytes(x, 1)
    IN  [k \in 1..Len(le) |-> le[Len(le) + 1 - k]]

\* Word::to_bytes_slice: to_le_bytes
to_bytes_slice(x) == LeBytes(x, 1)

\* the limbs i.. read from little-endian bytes
RECURSIVE LeLimbs(_, _)
LeLimbs(slice, i) ==
    IF 2 * i > Len(slice) THEN <<>>
    ELSE <<slice[2 * i - 1] + U8Range * slice[2 * i]>> \o LeLimbs(slice, i + 1)

\* Word::from_bytes_slice: from_le_bytes, None unless the slice is BYTES long
from_bytes_slice(slice, w) ==
    IF Len(slice) # BYTES(w) THEN None ELSE Ok(LeLimbs(slice, 1))

(***************************************************************************)
(* rc5.rs: key expansion.                                                  *)
(***************************************************************************)
\* one pass of the packing loop of expand_key, for byte `index` of the key
PackStep(key, w, index, key_words) ==
    LET ix == index \div BYTES(w)
    IN  [key_words EXCEPT ![ix + 1] =
            wrapping_add(rotate_left(@, from_u8(8, w)),
                         from_u8(key[index + 1], w))]

\* the passes of the packing loop for the indices hi - 1 down to lo, the
\* upper half of them first
RECURSIVE PackRange(_, _, _, _, _)
PackRange(key, w, hi, lo, key_words) ==
    IF hi <= lo THEN key_words
    ELSE IF hi = lo + 1 THEN PackStep(key, w, lo, key_words)
    ELSE LET mid   == lo + ((hi - lo) \div 2)
             upper == PackRange(key, w, hi, mid, key_words)
         IN  \* the test always holds; it has the upper half computed first
             IF Len(upper) = Len(key_words) THEN PackRange(key, w, mid, lo, upper)
             ELSE upper

\* the packing loop of expand_key, `for index in (0..key_length).rev()`,
\* with n indices left to visit (the next one is n - 1)
PackKey(key, w, n, key_words) == PackRange(key, w, n, 0, key_words)

\* n words of the S-table from `first` on, each the one before plus Q
RECURSIVE SeedFrom(_, _, _)
SeedFrom(w, first, n) ==
    IF n = 1 THEN <<first>>
    ELSE LET left == SeedFrom(w, first, n \div 2)
         IN  left \o SeedFrom(w, wrapping_add(left[Len(left)], Q(w)), n - (n \div 2))

\* the seeding loop of expand_key: s_table[0] = P, s_table[i] = s_table[i-1] + Q
SeedTable(w, table_size) == SeedFrom(w, P(w), table_size)

\* MixStep with B rotated by A alone, not by A + B
MixStep_rot_a(st) ==
    LET w  == LimbBits * Len(st.a)
        a1 == rotate_left(wrapping_add(wrapping_add(st.s_table[st.i + 1], st.a), st.b),
                          from_u8(3, w))
        b1 == rotate_left(wrapping_add(wrapping_add(st.key_words[st.j + 1], a1), st.b),
                          a1)
    IN  [s_table   |-> [st.s_table EXCEPT ![st.i + 1] = a1],
         key_words |-> [st.key_words EXCEPT ![st.j + 1] = b1],
         i |-> (st.i + 1) % Len(st.s_table),
         j |-> (st.j + 1) % Len(st.key_words),
         a |-> a1,
         b |-> b1]

\* MixStep with i wrapping one place past the end of the S-table
MixStep_wrap_late(st) ==
    LET w  == LimbBits * Len(st.a)
        a1 == rotate_left(wrapping_add(wrapping_add(st.s_table[st.i + 1], st.a), st.b),
                          from_u8(3, w))
        b1 == rotate_left(wrapping_add(wrapping_add(st.key_words[st.j + 1], a1), st.b),
                          wrapping_add(a1, st.b))
    IN  [s_table   |-> [st.s_table EXCEPT ![st.i + 1] = a1],
         key_words |-> [st.key_words EXCEPT ![st.j + 1] = b1],
         i |-> (st.i + 1) % (Len(st.s_table) + 1),
         j |-> (st.j + 1) % Len(st.key_words),
         a |-> a1,
         b |-> b1]

\* one iteration of the mixing loop of expand_key
MixStep(st) ==
    LET w  == LimbBits * Len(st.a)
        a1 == rotate_left(wrapping_add(wrapping_add(st.s_table[st.i + 1], st.a), st.b),
                          from_u8(3, w))
        b1 == rotate_left(wrapping_add(wrapping_add(st.key_words[st.j + 1], a1), st.b),
                          wrapping_add(a1, st.b))
    IN  [s_table   |-> [st.s_table EXCEPT ![st.i + 1] = a1],
         key_words |-> [st.key_words EXCEPT ![st.j + 1] = b1],
         i |-> (st.i + 1) % Len(st.s_table),
         j |-> (st.j + 1) % Len(st.key_words),
         a |-> a1,
         b |-> b1]

\* `for _ in 0..(3 * table_size.max(expanded_length))`, n iterations left
RECURSIVE MixLoop(_, _)
MixLoop(st, n) ==
    IF n = 0 THEN st
    ELSE IF n = 1 THEN MixStep(st)
    ELSE \* the first half of the iterations, then the rest from where it ends
         CHOOSE end \in {MixLoop(half, n - (n \div 2)) :
                            half \in {MixLoop(st, n \div 2)}} : TRUE

\* vec![W::ZERO; n]
RECURSIVE ZeroWords(_, _)
ZeroWords(w, n) ==
    IF n = 0 THEN <<>>
    ELSE IF n = 1 THEN <<ZERO(w)>>
    ELSE ZeroWords(w, n \div 2) \o ZeroWords(w, n - (n \div 2))

\* the state of expand_key when the mixing loop starts
MixStart(key, rounds, w) ==
    LET key_length      == Max(Len(key), 1)
        expanded_length == (key_length + BYTES(w) - 1) \div BYTES(w)
        table_size      == 2 * (rounds + 1)
    IN  [s_table   |-> SeedTable(w, table_size),
         key_words |-> PackKey(key, w, key_length,
                               ZeroWords(w, expanded_length)),
         i |-> 0, j |-> 0, a |-> ZERO(w), b |-> ZERO(w)]

\* three passes over the S-table, however many key words there are
MixCount_table_only(key, rounds, w) == 3 * 2 * (rounds + 1)

\* the number of mixing iterations
MixCount(key, rounds, w) ==
    3 * Max(2 * (rounds + 1), (Max(Len(key), 1) + BYTES(w) - 1) \div BYTES(w))

\* expand_key: the S-table; key[0] of an empty key is out of bounds
expand_key(key, rounds, w) ==
    IF Len(key) = 0 THEN Panic
    ELSE Ok(MixLoop(MixStart(key, rounds, w), MixCount(key, rounds, w)).s_table)

(***************************************************************************)
(* rc5.rs: the block transform of RC5ControlBlock.                         *)
(***************************************************************************)
\* a round that makes B from the A of the round before
EncRound_stale_a(expanded_key, r, word_a, word_b) ==
    LET a1 == wrapping_add(rotate_left(Xor(word_a, word_b), word_b),
                           expanded_key[2 * r + 1])
        b1 == wrapping_add(rotate_left(Xor(word_b, word_a), word_a),
                           expanded_key[2 * r + 2])
    IN  <<a1, b1>>

\* round r of the loop `for r in 1..=self.rounds()` of encrypt
EncRound(expanded_key, r, word_a, word_b) ==
    LET a1 == wrapping_add(rotate_left(Xor(word_a, word_b), word_b),
                           expanded_key[2 * r + 1])
        b1 == wrapping_add(rotate_left(Xor(word_b, a1), a1),
                           expanded_key[2 * r + 2])
    IN  <<a1, b1>>

\* rounds r..rounds of the loop `for r in 1..=self.rounds()` of encrypt
RECURSIVE EncRounds(_, _, _, _, _)
EncRounds(expanded_key, rounds, r, word_a, word_b) ==
    IF r > rounds THEN <<word_a, word_b>>
    ELSE LET a1 == wrapping_add(rotate_left(Xor(word_a, word_b), word_b),
                                expanded_key[2 * r + 1])
             b1 == wrapping_add(rotate_left(Xor(word_b, a1), a1),
                                expanded_key[2 * r + 2])
         IN  EncRounds(expanded_key, rounds, r + 1, a1, b1)

\* BlockCipher::encrypt for RC5ControlBlock
encrypt(cb, pt) ==
    EncRounds(cb.s_table, cb.rounds, 1,
              wrapping_add(pt[1], cb.s_table[1]),
              wrapping_add(pt[2], cb.s_table[2]))

\* round r of the loop `for r in (1..=self.rounds()).rev()` of decrypt
DecRound(expanded_key, r, word_a, word_b) ==
    LET b1 == Xor(rotate_right(wrapping_sub(word_b, expanded_key[2 * r + 2]),
                               word_a),
                  word_a)
        a1 == Xor(rotate_right(wrapping_sub(word_a, expanded_key[2 * r + 1]),
                               b1),
                  b1)
    IN  <<a1, b1>>

\* rounds r..1 of the loop `for r in (1..=self.rounds()).rev()` of decrypt
RECURSIVE DecRounds(_, _, _, _)
DecRounds(expanded_key, r, word_a, word_b) ==
    IF r = 0 THEN <<word_a, word_b>>
    ELSE LET b1 == Xor(rotate_right(wrapping_sub(word_b, expanded_key[2 * r + 2]),
                                    word_a),
                       word_a)
             a1 == Xor(rotate_right(wrapping_sub(word_a, expanded_key[2 * r + 1]),
                                    b1),
                       b1)
         IN  DecRounds(expanded_key, r - 1, a1, b1)

\* decrypt taking S[0] from B and S[1] from A
decrypt_swapped_keys(cb, ct) ==
    LET ab == DecRounds(cb.s_table, cb.rounds, ct[1], ct[2])
    IN  <<wrapping_sub(ab[1], cb.s_table[2]), wrapping_sub(ab[2], cb.s_table[1])>>

\* BlockCipher::decrypt for RC5ControlBlock
decrypt(cb, ct) ==
    LET ab == DecRounds(cb.s_table, cb.rounds, ct[1], ct[2])
    IN  <<wrapping_sub(ab[1], cb.s_table[1]), wrapping_sub(ab[2], cb.s_table[2])>>

(***************************************************************************)
(* rc5.rs: construction of the key and of the control block.               *)
(***************************************************************************)
\* RC5Key::from_raw of rc5-rs (and rc5-block): the three bail! checks
from_raw(key, rounds, w) ==
    IF Len(key) = 0 THEN Err(InvalidKey)
    ELSE IF Len(key) > MAX_KEY_BYTES THEN Err(KeyTooLong(Len(key), MAX_KEY_BYTES))
    ELSE IF rounds > MAX_ROUNDS THEN Err(InvalidRounds(rounds))
    ELSE LET s == expand_key(key, rounds, w)
         IN  IF s.tag = "Ok" THEN Ok([s_table |-> s.val, raw_key |-> key]) ELSE s

\* RC5Key::from_raw of src: one assert! on the key length, no Result
from_raw_src(key, rounds, w) ==
    IF Len(key) > MAX_KEY_BYTES THEN Panic
    ELSE LET s == expand_key(key, rounds, w)
         IN  IF s.tag = "Ok" THEN Ok([s_table |-> s.val, raw_key |-> key]) ELSE s

\* the body of RC5ControlBlock::new once the key is made; `as u8` truncates
ControlBlock(k, rounds, w) ==
    [rounds  |-> rounds,
     version |-> <<1, (BYTES(w) * 8) % U8Range, rounds % U8Range,
                   Len(k.raw_key) % U8Range>>,
     s_table |-> k.s_table,
     raw_key |-> k.raw_key,
     w       |-> w]

\* RC5ControlBlock::new of rc5-rs (and rc5-block)
RC5ControlBlock_new(key, rounds, w) ==
    LET k == from_raw(key, rounds, w)
    IN  IF k.tag = "Ok" THEN Ok(ControlBlock(k.val, rounds, w)) ELSE k

\* RC5ControlBlock::new of src
RC5ControlBlock_new_src(key, rounds, w) ==
    LET k == from_raw_src(key, rounds, w)
    IN  IF k.tag = "Ok" THEN Ok(ControlBlock(k.val, rounds, w)) ELSE k

\* rc5_cipher: Cipher::new(RC5ControlBlock::new(key, rounds)?)
rc5_cipher(c, key, rounds, w) ==
    IF c = "src" THEN RC5ControlBlock_new_src(key, rounds, w)
    ELSE RC5ControlBlock_new(key, rounds, w)

\* BlockCipher::block_size
block_size(cb) == BYTES(cb.w) * 2
\* BlockCipher::word_size
word_size(cb) == BYTES(cb.w)

(***************************************************************************)
(* rc5.rs: blocks <-> bytes.                                               *)
(***************************************************************************)
\* Option::unwrap on the result of from_bytes_slice
unwrap(o) == o.val

\* the blocks of pt from byte offset `from` on: chunks_exact(block_size)
\* leaves a last chunk shorter than a block out
RECURSIVE BlocksFrom(_, _, _)
BlocksFrom(pt, w, from) ==
    IF from + 2 * BYTES(w) > Len(pt) THEN <<>>
    ELSE << <<unwrap(from_bytes_slice(SubSeq(pt, from + 1, from + BYTES(w)), w)),
              unwrap(from_bytes_slice(SubSeq(pt, from + BYTES(w) + 1,
                                             from + 2 * BYTES(w)), w))>> >>
         \o BlocksFrom(pt, w, from + 2 * BYTES(w))

\* BlockCipher::generate_blocks
generate_blocks(cb, pt) == BlocksFrom(pt, cb.w, 0)

\* BlockCipher::generate_bytes_stream
RECURSIVE generate_bytes_stream(_)
generate_bytes_stream(blocks) ==
    IF blocks = <<>> THEN <<>>
    ELSE to_bytes_slice(Head(blocks)[1]) \o to_bytes_slice(Head(blocks)[2])
         \o generate_bytes_stream(Tail(blocks))

(***************************************************************************)
(* modes.rs                                                                *)
(***************************************************************************)
\* the element-wise ^ of two blocks
XorBlock(x, y) == <<Xor(x[1], y[1]), Xor(x[2], y[2])>>

\* ecb_encrypt with each block tweaked by the number of blocks after it
RECURSIVE ecb_encrypt_tweaked(_, _)
ecb_encrypt_tweaked(cb, input_blocks) ==
    IF input_blocks = <<>> THEN <<>>
    ELSE LET tweak == <<from_u8(Len(input_blocks) - 1, cb.w), ZERO(cb.w)>>
         IN  <<encrypt(cb, XorBlock(Head(input_blocks), tweak))>>
             \o ecb_encrypt_tweaked(cb, Tail(input_blocks))

RECURSIVE ecb_encrypt(_, _)
ecb_encrypt(cb, input_blocks) ==
    IF input_blocks = <<>> THEN <<>>
    ELSE <<encrypt(cb, Head(input_blocks))>> \o ecb_encrypt(cb, Tail(input_blocks))

RECURSIVE ecb_decrypt(_, _)
ecb_decrypt(cb, input_blocks) ==
    IF input_blocks = <<>> THEN <<>>
    ELSE <<decrypt(cb, Head(input_blocks))>> \o ecb_decrypt(cb, Tail(input_blocks))

\* cbc_encrypt that keeps the iv as the chaining value of every block
RECURSIVE cbc_encrypt_prev_iv(_, _, _)
cbc_encrypt_prev_iv(cb, prev, input_blocks) ==
    IF input_blocks = <<>> THEN <<>>
    ELSE <<encrypt(cb, XorBlock(prev, Head(input_blocks)))>>
         \o cbc_encrypt_prev_iv(cb, prev, Tail(input_blocks))

\* cbc_encrypt; the second argument is `prev`, which starts as the iv
RECURSIVE cbc_encrypt(_, _, _)
cbc_encrypt(cb, prev, input_blocks) ==
    IF input_blocks = <<>> THEN <<>>
    ELSE LET ct == encrypt(cb, XorBlock(prev, Head(input_blocks)))
         IN  <<ct>> \o cbc_encrypt(cb, ct, Tail(input_blocks))

\* cbc_decrypt chaining on the decrypted block, not on the ciphertext block
RECURSIVE cbc_decrypt_prev_plain(_, _, _)
cbc_decrypt_prev_plain(cb, prev, input_blocks) ==
    IF input_blocks = <<>> THEN <<>>
    ELSE LET decrypted == XorBlock(decrypt(cb, Head(input_blocks)), prev)
         IN  <<decrypted>> \o cbc_decrypt_prev_plain(cb, decrypted, Tail(input_blocks))

\* cbc_decrypt; the second argument is `prev`, which starts as the iv
RECURSIVE cbc_decrypt(_, _, _)
cbc_decrypt(cb, prev, input_blocks) ==
    IF input_blocks = <<>> THEN <<>>
    ELSE LET decrypted == XorBlock(decrypt(cb, Head(input_blocks)), prev)
         IN  <<decrypted>> \o cbc_decrypt(cb, Head(input_blocks), Tail(input_blocks))

\* input[i] ^ key_stream[i] for the bytes i.. of one chunk
RECURSIVE XorBytes(_, _, _)
XorBytes(input_chunk, key_stream, i) ==
    IF i > Len(input_chunk) THEN <<>>
    ELSE <<BitXor(input_chunk[i], key_stream[i], 8)>>
         \o XorBytes(input_chunk, key_stream, i + 1)

\* a counter over the whole block: the carry out of the last word goes into
\* the nonce
NextCounter_carry(nonce_and_counter) ==
    LET w    == LimbBits * Len(nonce_and_counter[2])
        last == wrapping_add(nonce_and_counter[2], from_u8(1, w))
    IN  <<IF last = ZERO(w) THEN wrapping_add(nonce_and_counter[1], from_u8(1, w))
          ELSE nonce_and_counter[1],
          last>>

\* nonce_and_counter[N - 1] = nonce_and_counter[N - 1].wrapping_add(from_u8(1))
NextCounter(nonce_and_counter) ==
    <<nonce_and_counter[1],
      wrapping_add(nonce_and_counter[2], from_u8(1, LimbBits * Len(nonce_and_counter[2])))>>

\* ctr_encrypt of rc5-block: a byte stream, `chunks(block_size)`
RECURSIVE ctr_encrypt(_, _, _)
ctr_encrypt(cb, nonce_and_counter, input_stream) ==
    IF input_stream = <<>> THEN <<>>
    ELSE LET n          == Min(block_size(cb), Len(input_stream))
             encrypted  == encrypt(cb, nonce_and_counter)
             key_stream == to_bytes_slice(encrypted[1]) \o to_bytes_slice(encrypted[2])
         IN  XorBytes(SubSeq(input_stream, 1, n), key_stream, 1)
             \o ctr_encrypt(cb, NextCounter(nonce_and_counter),
                            SubSeq(input_stream, n + 1, Len(input_stream)))

\* ctr_decrypt of rc5-block
ctr_decrypt(cb, nonce_and_counter, input_blocks) ==
    ctr_encrypt(cb, nonce_and_counter, input_blocks)

\* ctr_encrypt of src: over whole blocks
RECURSIVE ctr_encrypt_src(_, _, _)
ctr_encrypt_src(cb, nonce_and_counter, input_blocks) ==
    IF input_blocks = <<>> THEN <<>>
    ELSE <<XorBlock(Head(input_blocks), encrypt(cb, nonce_and_counter))>>
         \o ctr_encrypt_src(cb, NextCounter(nonce_and_counter), Tail(input_blocks))

\* ctr_decrypt of src: over whole blocks, with control_block.decrypt
RECURSIVE ctr_decrypt_src(_, _, _)
ctr_decrypt_src(cb, nonce_and_counter, input_blocks) ==
    IF input_blocks = <<>> THEN <<>>
    ELSE <<XorBlock(Head(input_blocks), decrypt(cb, nonce_and_counter))>>
         \o ctr_decrypt_src(cb, NextCounter(nonce_and_counter), Tail(input_blocks))

(***************************************************************************)
(* utils.rs: pkcs7(buf, bs, pad).  The buffer is changed in place, so each *)
(* operator returns the buffer after the call and the call's result.       *)
(***************************************************************************)
\* std::iter::repeat(v).take(n)
RECURSIVE Repeat(_, _)
Repeat(v, n) ==
    IF n = 0 THEN <<>>
    ELSE IF n = 1 THEN <<v>>
    ELSE Repeat(v, n \div 2) \o Repeat(v, n - (n \div 2))

\* buf[from..].iter().all(|element| *element == v), from counted from 0
AllEqual(buf, from, v) == \A i \in (from + 1)..Len(buf) : buf[i] = v

\* the pad branch writing rem, not pad_count, into the appended bytes
Pkcs7Pad_rem_byte(buf, bs) ==
    LET rem       == Len(buf) % bs
        pad_count == IF rem > 0 THEN bs - rem ELSE bs
    IN  [buf |-> buf \o Repeat(rem % U8Range, pad_count), ret |-> Ok(rem)]

\* the pad branch appending nothing to an aligned buffer
Pkcs7Pad_skip_aligned(buf, bs) ==
    LET rem       == Len(buf) % bs
        pad_count == IF rem > 0 THEN bs - rem ELSE 0
    IN  [buf |-> buf \o Repeat(pad_count % U8Range, pad_count), ret |-> Ok(rem)]

\* the `if pad { .. }` branch, the same text in the three trees
Pkcs7Pad(buf, bs) ==
    LET rem       == Len(buf) % bs
        pad_count == IF rem > 0 THEN bs - rem ELSE bs
    IN  [buf |-> buf \o Repeat(pad_count % U8Range, pad_count), ret |-> Ok(rem)]

\* the strip that truncates as soon as pad_len is in range, before it
\* compares the pad bytes
Pkcs7Strip_cut_first(buf, bs, errLen, errBytes) ==
    LET len     == Len(buf)
        pad_len == buf[len]
    IN  IF pad_len = 0 \/ pad_len > bs THEN [buf |-> buf, ret |-> Err(errLen)]
        ELSE IF ~AllEqual(buf, len - pad_len, pad_len % U8Range)
             THEN [buf |-> SubSeq(buf, 1, len - pad_len), ret |-> Err(errBytes)]
        ELSE [buf |-> SubSeq(buf, 1, len - pad_len), ret |-> Ok(pad_len)]

\* the strip with `pad_len >= bs` for `pad_len > bs`: a full block of padding
\* is turned down
Pkcs7Strip_ge(buf, bs, errLen, errBytes) ==
    LET len     == Len(buf)
        pad_len == buf[len]
    IN  IF pad_len = 0 \/ pad_len >= bs THEN [buf |-> buf, ret |-> Err(errLen)]
        ELSE IF ~AllEqual(buf, len - pad_len, pad_len % U8Range)
             THEN [buf |-> buf, ret |-> Err(errBytes)]
        ELSE [buf |-> SubSeq(buf, 1, len - pad_len), ret |-> Ok(pad_len)]

\* the checks on pad_len and the truncation, after the buffer is known to be
\* non-empty and aligned; the three trees differ in the error they return
Pkcs7Strip(buf, bs, errLen, errBytes) ==
    LET len     == Len(buf)
        pad_len == buf[len]
    IN  IF pad_len = 0 \/ pad_len > bs THEN [buf |-> buf, ret |-> Err(errLen)]
        ELSE IF ~AllEqual(buf, len - pad_len, pad_len % U8Range)
             THEN [buf |-> buf, ret |-> Err(errBytes)]
        ELSE [buf |-> SubSeq(buf, 1, len - pad_len), ret |-> Ok(pad_len)]

\* pkcs7 of rc5-block
pkcs7_block(buf, bs, pad) ==
    IF pad THEN Pkcs7Pad(buf, bs)
    ELSE IF Len(buf) = 0 \/ Len(buf) % bs # 0 THEN [buf |-> buf, ret |-> Err(Padding)]
    ELSE Pkcs7Strip(buf, bs, Padding, Padding)

\* pkcs7 of rc5-rs: `*buf.last().unwrap()` comes before the check for an
\* empty buffer
pkcs7_rs(buf, bs, pad) ==
    IF pad THEN Pkcs7Pad(buf, bs)
    ELSE IF Len(buf) = 0 THEN [buf |-> buf, ret |-> Panic]
    ELSE IF Len(buf) % bs # 0 THEN [buf |-> buf, ret |-> Err(Padding)]
    ELSE Pkcs7Strip(buf, bs, Padding, Padding)

\* pkcs7 of src: Reason::Padding(String)
pkcs7_src(buf, bs, pad) ==
    IF pad THEN Pkcs7Pad(buf, bs)
    ELSE IF Len(buf) = 0 \/ Len(buf) % bs # 0
         THEN [buf |-> buf,
               ret |-> Err(PaddingMsg("Either buffer is empty or not a multiple of block size", 0))]
    ELSE Pkcs7Strip(buf, bs,
            PaddingMsg("Pad length must be within 1-Block-size bounds, pad-length={}",
                       buf[Len(buf)]),
            PaddingMsg("Inconsistent pad elements", 0))

\* utils::pkcs7 of the running crate
pkcs7(c, buf, bs, pad) ==
    CASE c = "rc5-block" -> pkcs7_block(buf, bs, pad)
      [] c = "rc5-rs"    -> pkcs7_rs(buf, bs, pad)
      [] c = "src"       -> pkcs7_src(buf, bs, pad)

(***************************************************************************)
(* lib.rs: the Cipher facade.  A mode is [kind, block]: ECB carries no     *)
(* block, CBC its iv, CTR its nonce_and_counter.                           *)
(***************************************************************************)
ECB      == [kind |-> "ECB", block |-> <<>>]
CBC(iv)  == [kind |-> "CBC", block |-> iv]
CTR(nc)  == [kind |-> "CTR", block |-> nc]

\* the ECB and CBC arms of Cipher::encrypt, the same in rc5-block and src
EncryptPadded(c, cb, pt, mode) ==
    LET bs     == block_size(cb)
        padded == pkcs7(c, pt, bs, TRUE)
    IN  IF padded.ret.tag # "Ok" THEN padded.ret
        ELSE LET pt_blocks == generate_blocks(cb, padded.buf)
                 ct_blocks == IF mode.kind = "ECB" THEN ecb_encrypt(cb, pt_blocks)
                              ELSE cbc_encrypt(cb, mode.block, pt_blocks)
             IN  Ok(generate_bytes_stream(ct_blocks))

\* the ECB and CBC arms of Cipher::decrypt, the same in rc5-block and src
DecryptPadded(c, cb, ct, mode) ==
    LET ct_blocks == generate_blocks(cb, ct)
        bs        == block_size(cb)
        pt_blocks == IF mode.kind = "ECB" THEN ecb_decrypt(cb, ct_blocks)
                     ELSE cbc_decrypt(cb, mode.block, ct_blocks)
        unpadded  == pkcs7(c, generate_bytes_stream(pt_blocks), bs, FALSE)
    IN  IF unpadded.ret.tag # "Ok" THEN unpadded.ret ELSE Ok(unpadded.buf)

\* Cipher::encrypt of rc5-block (and rc5-rs)
Cipher_encrypt(c, cb, pt, mode) ==
    IF mode.kind = "CTR" THEN Ok(ctr_encrypt(cb, mode.block, pt))
    ELSE EncryptPadded(c, cb, pt, mode)

\* Cipher::decrypt of rc5-block (and rc5-rs)
Cipher_decrypt(c, cb, ct, mode) ==
    IF mode.kind = "CTR" THEN Ok(ctr_decrypt(cb, mode.block, ct))
    ELSE DecryptPadded(c, cb, ct, mode)

\* Cipher::encrypt of src: the CTR arm is unimplemented!()
Cipher_encrypt_src(c, cb, pt, mode) ==
    IF mode.kind = "CTR" THEN Panic ELSE EncryptPadded(c, cb, pt, mode)

\* Cipher::decrypt of src: the CTR arm is unimplemented!()
Cipher_decrypt_src(c, cb, ct, mode) ==
    IF mode.kind = "CTR" THEN Panic ELSE DecryptPadded(c, cb, ct, mode)

(***************************************************************************)
(* The state.                                                              *)
(***************************************************************************)
VARIABLES
    crate,    \* the source tree whose code runs
    width,    \* the word type W of the cipher, in bits
    cipher,   \* what rc5_cipher returned, NotBuilt before the call
    mode,     \* the OperationMode the caller passes
    block,    \* the [W; 2] block the caller passes to the control block
    buf,      \* the caller's Vec<u8>: the message, or the buffer of pkcs7
    bs,       \* the block size the caller passes to pkcs7
    call,     \* the last call: [op, mode, input, output, sent]
    callers,  \* the calls in flight on the cipher, each with its own locals
    frame     \* the locals of expand_key, encrypt or decrypt while its loop runs

vars == <<crate, width, cipher, mode, block, buf, bs, call, callers, frame>>

NotBuilt == [tag |-> "NotBuilt", val |-> <<>>, err |-> NoReason]

\* `sent` is Ok(x) when `input` is what the matching forward call (encrypt
\* for decrypt, pad for unpad) made of x, None otherwise
Call(op, m, input, output, sent) ==
    [op |-> op, mode |-> m, input |-> input, output |-> output, sent |-> sent]
NoCall == Call("none", ECB, <<>>, None, None)

\* no function of the control block is running
NoFrame ==
    [fn |-> "none", key |-> <<>>, rounds |-> 0, st |-> <<>>, n |-> 0,
     input |-> <<>>, r |-> 0, word_a |-> <<>>, word_b |-> <<>>]

(***************************************************************************)
(* The inputs the model draws.                                             *)
(***************************************************************************)
\* the all-ones word
RECURSIVE Ones(_)
Ones(n) == IF n = 0 THEN <<>> ELSE <<LimbRange - 1>> \o Ones(n - 1)
MaxWord(w) == Ones(NLimbs(w))

SampleWords(w) == {ZERO(w), from_u8(1, w), MaxWord(w), P(w)}
SampleBlocks(w) == {<<a, b>> : a \in SampleWords(w), b \in SampleWords(w)}

\* tests/mod.rs, rc5_control_block_vectors!: RC5-32/12/16, the key is
\* (first << 120 as u128).to_be_bytes(), the plaintext block is [0, 0]
KatRounds == 12
KatWidth == 32
KatKeyLen == 16
KatVectors ==
    {
      [first |-> 128, hex |-> "8F681D7F285CDC2F"],
      [first |-> 64, hex |-> "DC14832CF4FE61A8"],
      [first |-> 32, hex |-> "2F2494A0D96958E7"],
      [first |-> 16, hex |-> "410BCDD35DA0963F"],
      [first |-> 8, hex |-> "0C4C1EC0EA4EA260"],
      [first |-> 4, hex |-> "3BBC9C778EDC72B3"],
      [first |-> 2, hex |-> "06381C693372158D"],
      [first |-> 1, hex |-> "587E3D5E4B11860B"]
    }
\* hex::encode_upper
HexDigits ==
    <<"0", "1", "2", "3", "4", "5", "6", "7", "8", "9", "A", "B", "C", "D", "E", "F">>
RECURSIVE encode_upper(_)
encode_upper(bytes) ==
    IF bytes = <<>> THEN ""
    ELSE HexDigits[(Head(bytes) \div 16) + 1] \o HexDigits[(Head(bytes) % 16) + 1]
         \o encode_upper(Tail(bytes))

\* cipher_text.iter().flat_map(|word| word.to_le_bytes())
BlockBytes(blk) == to_bytes_slice(blk[1]) \o to_bytes_slice(blk[2])

KatKey(v) == <<v.first>> \o Repeat(0, KatKeyLen - 1)

SampleKeys == {<<>>, <<1>>, <<1, 2, 3, 4, 5>>}

\* the (key, rounds) pairs handed to rc5_cipher
KeyRounds(w) == SampleKeys \X (0..MaxRounds)

\* the (key, rounds) pairs of the known-answer vectors
KatKeyRounds(w) ==
    IF w = KatWidth THEN {<<KatKey(v), KatRounds>> : v \in KatVectors} ELSE {}

\* a message of n bytes: a ramp, or all zero
RECURSIVE Ramp(_, _)
Ramp(n, k) == IF k > n THEN <<>> ELSE <<(k * k + 2 * k) % U8Range>> \o Ramp(n, k + 1)
Message(n, ramp) == IF ramp THEN Ramp(n, 1) ELSE Repeat(0, n)

\* empty, one byte, one byte short of a block, whole blocks, and beyond
Lengths(blk) ==
    {q * blk + r : q \in 0..(MaxBlocks - 1), r \in {0, 1, blk - 1}}
    \cup {MaxBlocks * blk}
\* a ramp of each length, and one block of zeros
Messages(w) ==
    {Message(n, TRUE) : n \in Lengths(2 * BYTES(w))}
    \cup {Message(2 * BYTES(w), FALSE)}

\* ECB, CBC with two ivs, CTR with a counter at zero and one at the maximum
Modes(w) ==
    {ECB, CBC(<<ZERO(w), ZERO(w)>>), CBC(<<P(w), Q(w)>>),
     CTR(<<P(w), ZERO(w)>>), CTR(<<Q(w), MaxWord(w)>>)}

\* every byte string of length n over 0..MaxByte
RECURSIVE BytesOfLen(_)
BytesOfLen(n) ==
    IF n = 0 THEN {<<>>}
    ELSE {Append(b, x) : b \in BytesOfLen(n - 1), x \in 0..MaxByte}

\* the buffers of the tests of pkcs7: utils.rs, padding_fixed_blocks and
\* pad_aligned_data
TestBuffers == {Repeat(1, 8), Repeat(1, 4), <<1, 2, 3, 4, 5, 6, 7, 8>>}

PadBuffers == UNION {BytesOfLen(n) : n \in 0..MaxLen} \cup TestBuffers

\* 2 * W::BYTES for the four word types
BlockSizes == {2 * BYTES(w) : w \in Widths}

\* block sizes around the range of the pad byte
WideSizes == {U8Range - 1, U8Range, U8Range + MaxBs}

(***************************************************************************)
(* Construction and the calls on the control block.                        *)
(***************************************************************************)
Built == cipher.tag = "Ok"

\* a panic ends the caller: no call follows one
Alive == call.output.tag # "Panic"

NewWith(keys) ==
    /\ cipher = NotBuilt
    /\ \E kr \in keys : cipher' = rc5_cipher(crate, kr[1], kr[2], width)
    /\ UNCHANGED <<crate, width, mode, block, buf, bs, call, callers, frame>>

\* rc5_cipher::<W>(key, rounds)
New == NewWith(KeyRounds(width))

\* rc5_cipher::<W>(key, rounds) with the keys of the known-answer vectors too
NewBlock == NewWith(KeyRounds(width) \cup KatKeyRounds(width))

\* control_block.encrypt(block)
BlockEncrypt ==
    /\ Built
    /\ call' = Call("block_encrypt", ECB, block, Ok(encrypt(cipher.val, block)), None)
    /\ UNCHANGED <<crate, width, cipher, mode, block, buf, bs, callers, frame>>

\* control_block.decrypt(ct) on the block the last block encrypt returned
BlockDecrypt ==
    /\ Built
    /\ call.op = "block_encrypt"
    /\ call' = Call("block_decrypt", ECB, call.output.val,
                    Ok(decrypt(cipher.val, call.output.val)), Ok(call.input))
    /\ UNCHANGED <<crate, width, cipher, mode, block, buf, bs, callers, frame>>

InitBlock ==
    /\ crate \in Crates
    /\ width \in Widths
    /\ cipher = NotBuilt
    /\ mode = ECB
    /\ block \in SampleBlocks(width)
    /\ buf = <<>>
    /\ bs = 0
    /\ call = NoCall
    /\ callers = <<>>
    /\ frame = NoFrame

NextBlock ==
    \/ NewBlock
    \/ BlockEncrypt
    \/ BlockDecrypt

SpecBlock == InitBlock /\ [][NextBlock]_vars

(***************************************************************************)
(* The facade and the modes.                                               *)
(***************************************************************************)
\* Cipher::encrypt of the running crate
FacadeEncrypt(c, cb, pt, m) ==
    IF c = "src" THEN Cipher_encrypt_src(c, cb, pt, m)
    ELSE Cipher_encrypt(c, cb, pt, m)

\* Cipher::decrypt of the running crate
FacadeDecrypt(c, cb, ct, m) ==
    IF c = "src" THEN Cipher_decrypt_src(c, cb, ct, m)
    ELSE Cipher_decrypt(c, cb, ct, m)

\* cipher.encrypt(&buf, mode)
Encrypt ==
    /\ Built
    /\ Alive
    /\ call' = Call("encrypt", mode, buf,
                    FacadeEncrypt(crate, cipher.val, buf, mode), None)
    /\ UNCHANGED <<crate, width, cipher, mode, block, buf, bs, callers, frame>>

\* cipher.decrypt(ct, mode) on the ciphertext the last encrypt returned
Decrypt ==
    /\ Built
    /\ Alive
    /\ call.op = "encrypt"
    /\ call.output.tag = "Ok"
    /\ call' = Call("decrypt", mode, call.output.val,
                    FacadeDecrypt(crate, cipher.val, call.output.val, mode),
                    Ok(call.input))
    /\ UNCHANGED <<crate, width, cipher, mode, block, buf, bs, callers, frame>>

\* cipher.decrypt(&buf, mode) on bytes no encrypt made
DecryptBytes ==
    /\ Built
    /\ Alive
    /\ call' = Call("decrypt", mode, buf,
                    FacadeDecrypt(crate, cipher.val, buf, mode), None)
    /\ UNCHANGED <<crate, width, cipher, mode, block, buf, bs, callers, frame>>

\* what modes::ctr_encrypt of the running crate takes: bytes, or blocks in src
CtrInput(c, cb, bytes) == IF c = "src" THEN generate_blocks(cb, bytes) ELSE bytes

\* modes::ctr_encrypt of the running crate
ModesCtrEncrypt(c, cb, nc, input) ==
    IF c = "src" THEN ctr_encrypt_src(cb, nc, input) ELSE ctr_encrypt(cb, nc, input)

\* modes::ctr_decrypt of the running crate
ModesCtrDecrypt(c, cb, nc, input) ==
    IF c = "src" THEN ctr_decrypt_src(cb, nc, input) ELSE ctr_decrypt(cb, nc, input)

\* modes::ctr_encrypt(&control_block, nonce_and_counter, input)
CtrEncrypt ==
    /\ Built
    /\ Alive
    /\ mode.kind = "CTR"
    /\ LET input == CtrInput(crate, cipher.val, buf)
       IN  call' = Call("ctr_encrypt", mode, input,
                        Ok(ModesCtrEncrypt(crate, cipher.val, mode.block, input)),
                        None)
    /\ UNCHANGED <<crate, width, cipher, mode, block, buf, bs, callers, frame>>

\* modes::ctr_decrypt(&control_block, nonce_and_counter, input)
CtrDecrypt ==
    /\ Built
    /\ Alive
    /\ mode.kind = "CTR"
    /\ LET input == CtrInput(crate, cipher.val, buf)
       IN  call' = Call("ctr_decrypt", mode, input,
                        Ok(ModesCtrDecrypt(crate, cipher.val, mode.block, input)),
                        None)
    /\ UNCHANGED <<crate, width, cipher, mode, block, buf, bs, callers, frame>>

Init ==
    /\ crate \in Crates
    /\ width \in Widths
    /\ cipher = NotBuilt
    /\ mode \in Modes(width)
    /\ block = <<>>
    /\ buf \in Messages(width)
    /\ bs = 0
    /\ call = NoCall
    /\ callers = <<>>
    /\ frame = NoFrame

Next ==
    \/ New
    \/ Encrypt
    \/ Decrypt
    \/ DecryptBytes
    \/ CtrEncrypt
    \/ CtrDecrypt

Spec == Init /\ [][Next]_vars

(***************************************************************************)
(* pkcs7 on the caller's buffer.                                           *)
(***************************************************************************)
\* pkcs7(&mut buf, bs, true); the model stops growing the buffer at 2 * MaxLen
PadCall ==
    /\ Alive
    /\ Len(buf) <= 2 * MaxLen
    /\ LET r == pkcs7(crate, buf, bs, TRUE)
       IN  /\ buf' = r.buf
           /\ call' = Call("pad", ECB, buf, r.ret, None)
    /\ UNCHANGED <<crate, width, cipher, mode, block, bs, callers, frame>>

\* pkcs7(&mut buf, bs, false)
UnpadCall ==
    /\ Alive
    /\ LET r == pkcs7(crate, buf, bs, FALSE)
       IN  /\ buf' = r.buf
           /\ call' = Call("unpad", ECB, buf, r.ret,
                           IF call.op = "pad" /\ call.output.tag = "Ok"
                           THEN Ok(call.input) ELSE None)
    /\ UNCHANGED <<crate, width, cipher, mode, block, bs, callers, frame>>

InitPadWith(sizes) ==
    /\ crate \in Crates
    /\ width = KatWidth
    /\ cipher = NotBuilt
    /\ mode = ECB
    /\ block = <<>>
    /\ buf \in PadBuffers
    /\ bs \in sizes
    /\ call = NoCall
    /\ callers = <<>>
    /\ frame = NoFrame

InitPad == InitPadWith((1..MaxBs) \cup BlockSizes)

InitPadWide == InitPadWith(WideSizes)

NextPad ==
    \/ PadCall
    \/ UnpadCall

SpecPad == InitPad /\ [][NextPad]_vars

SpecPadWide == InitPadWide /\ [][NextPad]_vars

(***************************************************************************)
(* lib.rs: the hex parsers of Cipher.  A hex string is a sequence of       *)
(* one-character strings.                                                  *)
(***************************************************************************)
\* Reason::ParseHex(FromHexError): OddLength, or InvalidHexCharacter at index
ParseHex(what, index) == [kind |-> "ParseHex", msg |-> what, n |-> index, m |-> 0]
\* Reason::IVinvalid(usize)
IVinvalid(size) == [kind |-> "IVinvalid", msg |-> "", n |-> size, m |-> 0]
\* Reason::NonceInvalid(usize)
NonceInvalid(size) == [kind |-> "NonceInvalid", msg |-> "", n |-> size, m |-> 0]

HexLower ==
    <<"0", "1", "2", "3", "4", "5", "6", "7", "8", "9", "a", "b", "c", "d", "e", "f">>

\* the value of a hex digit of either case, -1 for any other character
HexVal(c) ==
    IF \E i \in 1..16 : HexLower[i] = c
    THEN (CHOOSE i \in 1..16 : HexLower[i] = c) - 1
    ELSE IF \E i \in 1..16 : HexDigits[i] = c
    THEN (CHOOSE i \in 1..16 : HexDigits[i] = c) - 1
    ELSE -1

\* hex::decode on a string of even length: two characters to a byte, or the
\* first character that is no hex digit
DecodePairs(h) ==
    LET bad == {i \in 1..Len(h) : HexVal(h[i]) < 0}
    IN  IF bad # {}
        THEN Err(ParseHex("InvalidHexCharacter",
                          (CHOOSE i \in bad : \A j \in bad : i <= j) - 1))
        ELSE Ok([k \in 1..(Len(h) \div 2) |->
                    16 * HexVal(h[2 * k - 1]) + HexVal(h[2 * k])])

\* hex::decode
hex_decode(h) ==
    IF Len(h) % 2 # 0 THEN Err(ParseHex("OddLength", 0)) ELSE DecodePairs(h)

\* `*generate_blocks(bytes).last().unwrap()`
LastBlock(cb, bytes) ==
    LET blocks == generate_blocks(cb, bytes)
    IN  IF blocks = <<>> THEN Panic ELSE Ok(blocks[Len(blocks)])

\* parse_iv_from_hex turning down only a string that is too short
parse_iv_from_hex_short_only(cb, iv_hex) ==
    LET iv_bytes == hex_decode(iv_hex)
        size     == block_size(cb)
    IN  IF iv_bytes.tag # "Ok" THEN iv_bytes
        ELSE IF Len(iv_bytes.val) < size THEN Err(IVinvalid(size))
        ELSE LastBlock(cb, iv_bytes.val)

\* Cipher::parse_iv_from_hex
parse_iv_from_hex(cb, iv_hex) ==
    LET iv_bytes == hex_decode(iv_hex)
        size     == block_size(cb)
    IN  IF iv_bytes.tag # "Ok" THEN iv_bytes
        ELSE IF Len(iv_bytes.val) # size THEN Err(IVinvalid(size))
        ELSE LastBlock(cb, iv_bytes.val)

\* Cipher::parse_nonce_counter_from_hex
parse_nonce_counter_from_hex(cb, nonce_hex, counter_hex) ==
    LET nonce_bytes   == hex_decode(nonce_hex)
        counter_bytes == hex_decode(counter_hex)
        ws            == word_size(cb)
    IN  IF nonce_bytes.tag # "Ok" THEN nonce_bytes
        ELSE IF counter_bytes.tag # "Ok" THEN counter_bytes
        ELSE IF Len(nonce_bytes.val) # ws /\ Len(counter_bytes.val) # ws
             THEN Err(NonceInvalid(ws))
        ELSE LastBlock(cb, nonce_bytes.val \o counter_bytes.val)

\* the hex of a byte string in the digits given
HexWith(digits, bytes) ==
    [i \in 1..(2 * Len(bytes)) |->
        IF i % 2 = 1 THEN digits[(bytes[(i + 1) \div 2] \div 16) + 1]
        ELSE digits[(bytes[i \div 2] % 16) + 1]]

\* strings that hex::decode turns down: an odd length, a character that is
\* no hex digit in the first and in the second place of a pair
BadHex == {<<"0">>, <<"a", "b", "c">>, <<"g", "0">>, <<"0", "1", "2", "x">>}

\* hex of 0, 1, ws, bs - 1, bs, bs + 1 and 2 * bs bytes, and bad strings
IvHexes(w) ==
    {HexWith(HexLower, Ramp(n, 1)) :
        n \in {0, 1, BYTES(w), 2 * BYTES(w) - 1, 2 * BYTES(w), 2 * BYTES(w) + 1,
               4 * BYTES(w)}}
    \cup {HexWith(HexDigits, Ramp(2 * BYTES(w), 1))}
    \cup BadHex

\* hex of 0, ws - 1, ws, ws + 1, 2 * ws and 3 * ws bytes, and a bad string
WordHexes(w) ==
    {HexWith(HexLower, Ramp(n, 1)) :
        n \in {0, BYTES(w) - 1, BYTES(w), BYTES(w) + 1, 2 * BYTES(w), 3 * BYTES(w)}}
    \cup {<<"g", "0">>}

\* cipher.parse_iv_from_hex(iv_hex)
ParseIv ==
    /\ Built
    /\ Alive
    /\ \E iv_hex \in IvHexes(width) :
          call' = Call("parse_iv", ECB, iv_hex,
                       parse_iv_from_hex(cipher.val, iv_hex), None)
    /\ UNCHANGED <<crate, width, cipher, mode, block, buf, bs, callers, frame>>

\* cipher.parse_nonce_counter_from_hex(nonce_hex, counter_hex)
ParseNonceCounter ==
    /\ Built
    /\ Alive
    /\ \E nonce_hex \in WordHexes(width), counter_hex \in WordHexes(width) :
          call' = Call("parse_nonce_counter", ECB, <<nonce_hex, counter_hex>>,
                       parse_nonce_counter_from_hex(cipher.val, nonce_hex, counter_hex),
                       None)
    /\ UNCHANGED <<crate, width, cipher, mode, block, buf, bs, callers, frame>>

\* rc5_cipher::<W>(key, 0) on the sample keys
NewHex == NewWith({<<k, 0>> : k \in SampleKeys})

\* the trees whose Cipher has the hex parsers
InitHex ==
    /\ crate \in Crates \ {"src"}
    /\ width \in Widths
    /\ cipher = NotBuilt
    /\ mode = ECB
    /\ block = <<>>
    /\ buf = <<>>
    /\ bs = 0
    /\ call = NoCall
    /\ callers = <<>>
    /\ frame = NoFrame

NextHex ==
    \/ NewHex
    \/ ParseIv
    \/ ParseNonceCounter

SpecHex == InitHex /\ [][NextHex]_vars

(***************************************************************************)
(* modes.rs called on whole blocks, as Cipher calls it on the blocks that   *)
(* generate_blocks makes of a buffer.                                      *)
(***************************************************************************)
\* every sequence of up to n blocks, each the zero block or [P, Q]
RECURSIVE BlockSeqs(_, _)
BlockSeqs(w, n) ==
    IF n = 0 THEN {<<>>}
    ELSE LET shorter == BlockSeqs(w, n - 1)
         IN  shorter \cup
             {<<b>> \o seq : b \in {<<ZERO(w), ZERO(w)>>, <<P(w), Q(w)>>},
                             seq \in {x \in shorter : Len(x) = n - 1}}

\* modes::ecb_encrypt(&control_block, input_blocks)
EcbEncrypt ==
    /\ Built
    /\ mode.kind = "ECB"
    /\ LET input == generate_blocks(cipher.val, buf)
       IN  call' = Call("ecb_encrypt", mode, input,
                        Ok(ecb_encrypt(cipher.val, input)), None)
    /\ UNCHANGED <<crate, width, cipher, mode, block, buf, bs, callers, frame>>

\* modes::ecb_decrypt(&control_block, input_blocks)
EcbDecrypt ==
    /\ Built
    /\ mode.kind = "ECB"
    /\ LET input == generate_blocks(cipher.val, buf)
       IN  call' = Call("ecb_decrypt", mode, input,
                        Ok(ecb_decrypt(cipher.val, input)), None)
    /\ UNCHANGED <<crate, width, cipher, mode, block, buf, bs, callers, frame>>

\* modes::cbc_encrypt(&control_block, iv, input_blocks)
CbcEncrypt ==
    /\ Built
    /\ mode.kind = "CBC"
    /\ LET input == generate_blocks(cipher.val, buf)
       IN  call' = Call("cbc_encrypt", mode, input,
                        Ok(cbc_encrypt(cipher.val, mode.block, input)), None)
    /\ UNCHANGED <<crate, width, cipher, mode, block, buf, bs, callers, frame>>

\* modes::cbc_decrypt(&control_block, iv, input_blocks)
CbcDecrypt ==
    /\ Built
    /\ mode.kind = "CBC"
    /\ LET input == generate_blocks(cipher.val, buf)
       IN  call' = Call("cbc_decrypt", mode, input,
                        Ok(cbc_decrypt(cipher.val, mode.block, input)), None)
    /\ UNCHANGED <<crate, width, cipher, mode, block, buf, bs, callers, frame>>

InitModes ==
    /\ crate \in Crates
    /\ width \in Widths
    /\ cipher = NotBuilt
    /\ mode \in {m \in Modes(width) : m.kind # "CTR"}
    /\ block = <<>>
    /\ buf \in {generate_bytes_stream(seq) : seq \in BlockSeqs(width, MaxBlocks)}
    /\ bs = 0
    /\ call = NoCall
    /\ callers = <<>>
    /\ frame = NoFrame

NextModes ==
    \/ New
    \/ EcbEncrypt
    \/ EcbDecrypt
    \/ CbcEncrypt
    \/ CbcDecrypt

SpecModes == InitModes /\ [][NextModes]_vars

(***************************************************************************)
(* types.rs: Version::version.  A String is a sequence of one-character    *)
(* strings.                                                                *)
(***************************************************************************)
\* `{}` of an unsigned number: its decimal digits, with no leading zero
RECURSIVE Display(_)
Display(n) ==
    IF n < 10 THEN <<HexDigits[n + 1]>>
    ELSE Display(n \div 10) \o <<HexDigits[(n % 10) + 1]>>

\* format!("RC5-v{}/{}/{}/{}", params[0], params[1], params[2], params[3])
Version_version(params) ==
    <<"R", "C", "5", "-", "v">> \o Display(params[1]) \o <<"/">> \o Display(params[2])
    \o <<"/">> \o Display(params[3]) \o <<"/">> \o Display(params[4])

\* RC5ControlBlock::parametric_version
parametric_version(cb) == Version_version(cb.version)

(***************************************************************************)
(* Construction on keys and round counts at and past the limits.           *)
(***************************************************************************)
\* keys of 0, 1, 5, MAX_KEY_BYTES and MAX_KEY_BYTES + 1 bytes
WideKeys == SampleKeys \cup {Repeat(7, MAX_KEY_BYTES), Repeat(7, MAX_KEY_BYTES + 1)}

\* round counts up to MaxRounds, MAX_ROUNDS and MAX_ROUNDS + 1
WideRounds == (0..MaxRounds) \cup {MAX_ROUNDS, MAX_ROUNDS + 1}

\* rc5_cipher::<W>(key, rounds), the arguments kept in the call
NewWide ==
    /\ cipher = NotBuilt
    /\ \E key \in WideKeys, rounds \in WideRounds :
          /\ cipher' = rc5_cipher(crate, key, rounds, width)
          /\ call' = Call("new", ECB, <<key, rounds>>, cipher', None)
    /\ UNCHANGED <<crate, width, mode, block, buf, bs, callers, frame>>

InitNew ==
    /\ crate \in Crates
    /\ width \in Widths
    /\ cipher = NotBuilt
    /\ mode = ECB
    /\ block = <<>>
    /\ buf = <<>>
    /\ bs = 0
    /\ call = NoCall
    /\ callers = <<>>
    /\ frame = NoFrame

NextNew == NewWide

SpecNew == InitNew /\ [][NextNew]_vars

(***************************************************************************)
(* lib.rs: Cipher::encrypt and Cipher::decrypt of several callers on one   *)
(* cipher, run one loop iteration at a time.  A caller's record holds the  *)
(* locals of its call: the blocks or bytes still to process (`pending`),   *)
(* `prev` of CBC or `nonce_and_counter` of CTR (`chain`), and the output   *)
(* collected so far (`out`).                                               *)
(***************************************************************************)
Callers == {1, 2}

Idle ==
    [pc |-> "idle", op |-> "none", mode |-> ECB, input |-> <<>>, own |-> FALSE,
     cb |-> <<>>, pending |-> <<>>, chain |-> <<>>, out |-> <<>>, result |-> None]

\* the call returns; its locals are dropped
Returned(st, result) ==
    [st EXCEPT !.pc = "done", !.pending = <<>>, !.chain = <<>>, !.out = <<>>,
               !.result = result]

\* Cipher::encrypt / Cipher::decrypt up to the loop of the mode: the copy of
\* the input, the padding, generate_blocks
BeginCall(c, cb, st, op, m, input) ==
    LET run == [st EXCEPT !.pc = "run", !.op = op, !.mode = m, !.input = input,
                          !.chain = m.block]
    IN  IF m.kind = "CTR"
        THEN IF c = "src" THEN Returned(run, Panic) ELSE [run EXCEPT !.pending = input]
        ELSE IF op = "encrypt"
        THEN LET padded == pkcs7(c, input, block_size(cb), TRUE)
             IN  IF padded.ret.tag # "Ok" THEN Returned(run, padded.ret)
                 ELSE [run EXCEPT !.pending = generate_blocks(cb, padded.buf)]
        ELSE [run EXCEPT !.pending = generate_blocks(cb, input)]

\* a caller whose loop takes `chain` from another call in flight in the same
\* mode, as if `prev` and `nonce_and_counter` were fields of the cipher
StepCall_shared_chain(cb, st) ==
    LET others == {u \in DOMAIN callers :
                      /\ callers[u] # st
                      /\ callers[u].pc = "run"
                      /\ callers[u].mode.kind = st.mode.kind}
        chain  == IF others = {} THEN st.chain
                  ELSE callers[CHOOSE u \in others : TRUE].chain
        head   == Head(st.pending)
    IN  CASE st.mode.kind = "ECB" ->
               [st EXCEPT !.pending = Tail(@),
                          !.out = Append(@, IF st.op = "encrypt" THEN encrypt(cb, head)
                                            ELSE decrypt(cb, head))]
          [] st.mode.kind = "CBC" /\ st.op = "encrypt" ->
               LET ct == encrypt(cb, XorBlock(chain, head))
               IN  [st EXCEPT !.pending = Tail(@), !.chain = ct, !.out = Append(@, ct)]
          [] st.mode.kind = "CBC" /\ st.op = "decrypt" ->
               [st EXCEPT !.pending = Tail(@), !.chain = head,
                          !.out = Append(@, XorBlock(decrypt(cb, head), chain))]
          [] st.mode.kind = "CTR" ->
               LET n          == Min(block_size(cb), Len(st.pending))
                   encrypted  == encrypt(cb, chain)
                   key_stream == to_bytes_slice(encrypted[1]) \o to_bytes_slice(encrypted[2])
               IN  [st EXCEPT !.pending = SubSeq(@, n + 1, Len(@)),
                              !.chain = NextCounter(chain),
                              !.out = @ \o XorBytes(SubSeq(st.pending, 1, n), key_stream, 1)]

\* one iteration of the loop of modes::ecb_*, cbc_* or ctr_encrypt
StepCall(cb, st) ==
    LET head == Head(st.pending)
    IN  CASE st.mode.kind = "ECB" ->
               [st EXCEPT !.pending = Tail(@),
                          !.out = Append(@, IF st.op = "encrypt" THEN encrypt(cb, head)
                                            ELSE decrypt(cb, head))]
          [] st.mode.kind = "CBC" /\ st.op = "encrypt" ->
               LET ct == encrypt(cb, XorBlock(st.chain, head))
               IN  [st EXCEPT !.pending = Tail(@), !.chain = ct, !.out = Append(@, ct)]
          [] st.mode.kind = "CBC" /\ st.op = "decrypt" ->
               [st EXCEPT !.pending = Tail(@), !.chain = head,
                          !.out = Append(@, XorBlock(decrypt(cb, head), st.chain))]
          [] st.mode.kind = "CTR" ->
               LET n          == Min(block_size(cb), Len(st.pending))
                   encrypted  == encrypt(cb, st.chain)
                   key_stream == to_bytes_slice(encrypted[1]) \o to_bytes_slice(encrypted[2])
               IN  [st EXCEPT !.pending = SubSeq(@, n + 1, Len(@)),
                              !.chain = NextCounter(@),
                              !.out = @ \o XorBytes(SubSeq(st.pending, 1, n), key_stream, 1)]

\* Cipher::encrypt / Cipher::decrypt after the loop: generate_bytes_stream,
\* and the unpadding of decrypt
FinishCall(c, cb, st) ==
    IF st.mode.kind = "CTR" THEN Returned(st, Ok(st.out))
    ELSE IF st.op = "encrypt" THEN Returned(st, Ok(generate_bytes_stream(st.out)))
    ELSE LET unpadded == pkcs7(c, generate_bytes_stream(st.out), block_size(cb), FALSE)
         IN  Returned(st, IF unpadded.ret.tag # "Ok" THEN unpadded.ret
                          ELSE Ok(unpadded.buf))

\* the control block a call runs on: the shared cipher, or the caller's own
CbOf(st) == IF st.own THEN st.cb ELSE cipher.val

\* what a caller may pass to decrypt in mode m: the message, or what another
\* caller's encrypt in that mode returned
Ciphertexts(t, m) ==
    {buf} \cup {callers[u].result.val :
                   u \in {v \in Callers \ {t} :
                             /\ callers[v].pc = "done"
                             /\ callers[v].op = "encrypt"
                             /\ callers[v].mode = m
                             /\ callers[v].result.tag = "Ok"}}

\* one mode of each kind
SharedModes(w) == {ECB, CBC(<<P(w), Q(w)>>), CTR(<<Q(w), MaxWord(w)>>)}

\* a control block whose S-table is seeded but never mixed with the key
Rebuild_unmixed(c, cb, w) ==
    LET twin == rc5_cipher(c, cb.raw_key, cb.rounds, w)
    IN  [twin EXCEPT !.val.s_table = SeedTable(w, Len(@))]

\* rc5_cipher::<W>(key, rounds) on the key bytes and the round count of cb
Rebuild(c, cb, w) == rc5_cipher(c, cb.raw_key, cb.rounds, w)

\* rc5_cipher::<W>(key, rounds) for the cipher the callers share
NewShared ==
    /\ cipher = NotBuilt
    /\ \E kr \in {<<<<1, 2, 3, 4, 5>>, MaxRounds>>} :
          /\ cipher' = rc5_cipher(crate, kr[1], kr[2], width)
          /\ call' = Call("new", ECB, kr, cipher', None)
    /\ UNCHANGED <<crate, width, mode, block, buf, bs, callers, frame>>

\* the second caller builds a control block of its own from the same key and
\* round count
NewOwn ==
    /\ Built
    /\ callers[2].pc = "idle"
    /\ ~callers[2].own
    /\ LET twin == Rebuild(crate, cipher.val, width)
       IN  callers' = [callers EXCEPT ![2] = [@ EXCEPT !.own = TRUE, !.cb = twin.val]]
    /\ UNCHANGED <<crate, width, cipher, mode, block, buf, bs, call, frame>>

\* a caller enters cipher.encrypt(&pt, mode) or cipher.decrypt(&ct, mode)
Begin ==
    /\ Built
    /\ \E t \in Callers :
          /\ callers[t].pc = "idle"
          /\ \E m \in SharedModes(width) :
                \/ callers' = [callers EXCEPT ![t] =
                       BeginCall(crate, CbOf(@), @, "encrypt", m, buf)]
                \/ \E ct \in Ciphertexts(t, m) :
                      callers' = [callers EXCEPT ![t] =
                          BeginCall(crate, CbOf(@), @, "decrypt", m, ct)]
    /\ UNCHANGED <<crate, width, cipher, mode, block, buf, bs, call, frame>>

\* a call in flight processes its next block or chunk
Step ==
    /\ \E t \in Callers :
          /\ callers[t].pc = "run"
          /\ callers[t].pending # <<>>
          /\ callers' = [callers EXCEPT ![t] = StepCall(CbOf(@), @)]
    /\ UNCHANGED <<crate, width, cipher, mode, block, buf, bs, call, frame>>

\* a call in flight has no input left and returns
Finish ==
    /\ \E t \in Callers :
          /\ callers[t].pc = "run"
          /\ callers[t].pending = <<>>
          /\ callers' = [callers EXCEPT ![t] = FinishCall(crate, CbOf(@), @)]
    /\ UNCHANGED <<crate, width, cipher, mode, block, buf, bs, call, frame>>

\* the caller takes the result and is free to call again
Return ==
    /\ \E t \in Callers :
          /\ callers[t].pc = "done"
          /\ callers[t].result.tag # "Panic"
          /\ callers' = [callers EXCEPT ![t] =
                 [Idle EXCEPT !.own = callers[t].own, !.cb = callers[t].cb]]
    /\ UNCHANGED <<crate, width, cipher, mode, block, buf, bs, call, frame>>

InitShared ==
    /\ crate \in Crates \ {"src"}
    /\ width \in Widths
    /\ cipher = NotBuilt
    /\ mode = ECB
    /\ block = <<>>
    /\ buf \in {Message(n, TRUE) : n \in {0, MaxBlocks * 2 * BYTES(width) - 1}}
    /\ bs = 0
    /\ call = NoCall
    /\ callers = [t \in Callers |-> Idle]
    /\ frame = NoFrame

NextShared ==
    \/ NewShared
    \/ NewOwn
    \/ Begin
    \/ Step
    \/ Finish
    \/ Return

SpecShared == InitShared /\ [][NextShared]_vars

(***************************************************************************)
(* rc5.rs: expand_key, encrypt and decrypt run one loop iteration at a     *)
(* time.  `frame` holds the locals of the function that is running.        *)
(***************************************************************************)
\* blocks to encrypt and decrypt
LoopBlocks(w) ==
    {<<ZERO(w), ZERO(w)>>, <<P(w), Q(w)>>, <<MaxWord(w), from_u8(1, w)>>}

\* RC5ControlBlock::new on a key and a round count from_raw accepts:
\* expand_key up to its mixing loop
ExpandBegin ==
    /\ cipher = NotBuilt
    /\ frame.fn = "none"
    /\ \E key \in SampleKeys \ {<<>>}, rounds \in 0..MaxRounds :
          frame' = [NoFrame EXCEPT !.fn = "expand_key", !.key = key, !.rounds = rounds,
                                   !.st = MixStart(key, rounds, width)]
    /\ UNCHANGED <<crate, width, cipher, mode, block, buf, bs, call, callers>>

\* one iteration of the mixing loop
ExpandStep ==
    /\ frame.fn = "expand_key"
    /\ frame.n < MixCount(frame.key, frame.rounds, width)
    /\ frame' = [frame EXCEPT !.st = MixStep(@), !.n = @ + 1]
    /\ UNCHANGED <<crate, width, cipher, mode, block, buf, bs, call, callers>>

\* expand_key returns s_table, and new returns the control block
ExpandEnd ==
    /\ frame.fn = "expand_key"
    /\ frame.n >= MixCount(frame.key, frame.rounds, width)
    /\ cipher' = Ok(ControlBlock([s_table |-> frame.st.s_table, raw_key |-> frame.key],
                                 frame.rounds, width))
    /\ frame' = NoFrame
    /\ UNCHANGED <<crate, width, mode, block, buf, bs, call, callers>>

\* encrypt up to its loop: the two additions of S[0] and S[1]
EncryptBegin ==
    /\ Built
    /\ frame.fn = "none"
    /\ \E pt \in LoopBlocks(width) :
          frame' = [NoFrame EXCEPT !.fn = "encrypt", !.input = pt, !.r = 1,
                       !.word_a = wrapping_add(pt[1], cipher.val.s_table[1]),
                       !.word_b = wrapping_add(pt[2], cipher.val.s_table[2])]
    /\ UNCHANGED <<crate, width, cipher, mode, block, buf, bs, call, callers>>

\* round frame.r of encrypt
EncryptStep ==
    /\ frame.fn = "encrypt"
    /\ frame.r <= cipher.val.rounds
    /\ LET ab == EncRound(cipher.val.s_table, frame.r, frame.word_a, frame.word_b)
       IN  frame' = [frame EXCEPT !.r = @ + 1, !.word_a = ab[1], !.word_b = ab[2]]
    /\ UNCHANGED <<crate, width, cipher, mode, block, buf, bs, call, callers>>

\* encrypt returns [word_a, word_b]
EncryptEnd ==
    /\ frame.fn = "encrypt"
    /\ frame.r > cipher.val.rounds
    /\ call' = Call("block_encrypt", ECB, frame.input,
                    Ok(<<frame.word_a, frame.word_b>>), None)
    /\ frame' = NoFrame
    /\ UNCHANGED <<crate, width, cipher, mode, block, buf, bs, callers>>

\* decrypt, on the block the last encrypt returned, up to its loop
DecryptBegin ==
    /\ Built
    /\ frame.fn = "none"
    /\ call.op = "block_encrypt"
    /\ frame' = [NoFrame EXCEPT !.fn = "decrypt", !.input = call.output.val,
                    !.r = cipher.val.rounds,
                    !.word_a = call.output.val[1], !.word_b = call.output.val[2]]
    /\ UNCHANGED <<crate, width, cipher, mode, block, buf, bs, call, callers>>

\* round frame.r of decrypt
DecryptStep ==
    /\ frame.fn = "decrypt"
    /\ frame.r >= 1
    /\ LET ab == DecRound(cipher.val.s_table, frame.r, frame.word_a, frame.word_b)
       IN  frame' = [frame EXCEPT !.r = @ - 1, !.word_a = ab[1], !.word_b = ab[2]]
    /\ UNCHANGED <<crate, width, cipher, mode, block, buf, bs, call, callers>>

\* the two subtractions of S[1] and S[0], and decrypt returns
DecryptEnd ==
    /\ frame.fn = "decrypt"
    /\ frame.r = 0
    /\ call' = Call("block_decrypt", ECB, frame.input,
                    Ok(<<wrapping_sub(frame.word_a, cipher.val.s_table[1]),
                         wrapping_sub(frame.word_b, cipher.val.s_table[2])>>),
                    Ok(call.input))
    /\ frame' = NoFrame
    /\ UNCHANGED <<crate, width, cipher, mode, block, buf, bs, callers>>

InitLoops ==
    /\ crate \in Crates
    /\ width \in Widths
    /\ cipher = NotBuilt
    /\ mode = ECB
    /\ block = <<>>
    /\ buf = <<>>
    /\ bs = 0
    /\ call = NoCall
    /\ callers = <<>>
    /\ frame = NoFrame

NextLoops ==
    \/ ExpandBegin
    \/ ExpandStep
    \/ ExpandEnd
    \/ EncryptBegin
    \/ EncryptStep
    \/ EncryptEnd
    \/ DecryptBegin
    \/ DecryptStep
    \/ DecryptEnd

SpecLoops == InitLoops /\ [][NextLoops]_vars

(***************************************************************************)
(* Properties.                                                             *)
(***************************************************************************)
\* C1: for every word width, accepted key and round count (0 included), the
\* block that encrypt made of [A, B] is decrypted to [A, B].
C1_BlockRoundTrip ==
    call.op = "block_decrypt" => call.output = call.sent

\* a 128-bit block that encryption with no rounds changed has been decrypted
C1_Witness ==
    /\ call.op = "block_decrypt"
    /\ width = 128
    /\ cipher.val.rounds = 0
    /\ call.input # call.sent.val
    /\ call.output = call.sent

\* C2: in ECB and CBC the facade encrypts every message, and decrypting the
\* ciphertext under the same mode gives Ok of the message.
C2_FacadeRoundTrip ==
    mode.kind \in {"ECB", "CBC"} =>
        /\ call.op = "encrypt" => call.output.tag = "Ok"
        /\ (call.op = "decrypt" /\ call.sent.tag = "Ok") => call.output = call.sent

\* a CBC round trip of a message of exactly two blocks
C2_Witness ==
    /\ call.op = "decrypt"
    /\ call.sent.tag = "Ok"
    /\ mode.kind = "CBC"
    /\ mode.block # <<ZERO(width), ZERO(width)>>
    /\ Len(call.sent.val) = 2 * block_size(cipher.val)
    /\ call.output = call.sent

\* C3: in CTR the facade encrypts every message to as many bytes, and
\* decrypting them under the same counter block gives Ok of the message.
C3_CtrRoundTrip ==
    mode.kind = "CTR" =>
        /\ call.op = "encrypt" =>
              /\ call.output.tag = "Ok"
              /\ Len(call.output.val) = Len(call.input)
        /\ (call.op = "decrypt" /\ call.sent.tag = "Ok") => call.output = call.sent

\* C4: ctr_decrypt returns what ctr_encrypt returns on the same arguments.
C4_CtrDecryptIsEncrypt ==
    call.op = "ctr_decrypt" =>
        call.output = Ok(ModesCtrEncrypt(crate, cipher.val, mode.block, call.input))

\* C5: RC5-32/12/16 on the zero block gives, for each of the eight keys, the
\* listed upper-case hex of the little-endian bytes of the two words, and
\* decrypting that block gives the zero block.
C5_KnownAnswers ==
    \A v \in KatVectors :
        (/\ Built
         /\ width = KatWidth
         /\ cipher.val.rounds = KatRounds
         /\ cipher.val.raw_key = KatKey(v)
         /\ block = <<ZERO(KatWidth), ZERO(KatWidth)>>)
        => /\ call.op = "block_encrypt" =>
                 encode_upper(BlockBytes(call.output.val)) = v.hex
           /\ call.op = "block_decrypt" =>
                 call.output = Ok(<<ZERO(KatWidth), ZERO(KatWidth)>>)

\* the ciphertext of the vector of key 01 00..00 has been decrypted
C5_Witness ==
    /\ Built
    /\ width = KatWidth
    /\ cipher.val.rounds = KatRounds
    /\ cipher.val.raw_key = KatKey([first |-> 1])
    /\ block = <<ZERO(KatWidth), ZERO(KatWidth)>>
    /\ call.op = "block_decrypt"
    /\ encode_upper(BlockBytes(call.input)) = "587E3D5E4B11860B"

ValidPadding(b, size) ==
    /\ Len(b) > 0
    /\ Len(b) % size = 0
    /\ b[Len(b)] >= 1
    /\ b[Len(b)] <= size
    /\ \A i \in (Len(b) - b[Len(b)] + 1)..Len(b) : b[i] = b[Len(b)]

\* C8: unpad of a non-empty aligned buffer whose last byte p is in 1..bs and
\* whose last p bytes equal p removes those p bytes, keeps the rest and
\* returns Ok(p).
C8_UnpadAccepts ==
    (call.op = "unpad" /\ ValidPadding(call.input, bs)) =>
        LET p == call.input[Len(call.input)]
        IN  /\ buf = SubSeq(call.input, 1, Len(call.input) - p)
            /\ call.output = Ok(p)

\* a buffer that is one whole block of padding, made by no pad call, has been
\* unpadded
C8_Witness ==
    /\ call.op = "unpad"
    /\ call.sent = None
    /\ ValidPadding(call.input, bs)
    /\ bs > 1
    /\ call.input[Len(call.input)] = bs
    /\ buf = <<>>

\* C9: unpad right after pad, at any block size, succeeds, restores the
\* buffer and returns the number of bytes pad appended.
C9_PadUnpadRoundTrip ==
    (call.op = "unpad" /\ call.sent.tag = "Ok") =>
        /\ buf = call.sent.val
        /\ call.output = Ok(Len(call.input) - Len(call.sent.val))

\* C10: unpad returns the Padding error for an empty buffer, an unaligned
\* one, a last byte of 0 or above bs, and last p bytes not all equal to p.
C10_UnpadRejects ==
    (call.op = "unpad" /\ ~ValidPadding(call.input, bs)) =>
        /\ call.output.tag = "Err"
        /\ call.output.err.kind = "Padding"

\* C11: every error unpad returns is the one Padding value, with no message,
\* length or other detail that tells the failed check.
C11_UniformPaddingError ==
    (call.op = "unpad" /\ call.output.tag = "Err") => call.output = Err(Padding)

\* C12: construction returns Err(InvalidKey) for an empty key,
\* Err(KeyTooLong{len, 255}) for a key above 255 bytes, Err(InvalidRounds(n))
\* for n > 255 rounds, and Ok for a key of 1..255 bytes with 0..255 rounds.
C12_KeyValidation ==
    call.op = "new" =>
        LET key    == call.input[1]
            rounds == call.input[2]
        IN  /\ Len(key) = 0 => call.output = Err(InvalidKey)
            /\ Len(key) > MAX_KEY_BYTES =>
                  call.output = Err(KeyTooLong(Len(key), MAX_KEY_BYTES))
            /\ (Len(key) \in 1..MAX_KEY_BYTES /\ rounds > MAX_ROUNDS) =>
                  call.output = Err(InvalidRounds(rounds))
            /\ (Len(key) \in 1..MAX_KEY_BYTES /\ rounds <= MAX_ROUNDS) =>
                  call.output.tag = "Ok"

\* C13: Cipher.encrypt, Cipher.decrypt, parse_iv_from_hex and
\* parse_nonce_counter_from_hex end with Ok or Err on every input, never
\* with a panic.
C13_NoPanic ==
    call.op \in {"encrypt", "decrypt", "parse_iv", "parse_nonce_counter"} =>
        call.output.tag \in {"Ok", "Err"}

\* C14: once both strings decode, parse_nonce_counter_from_hex returns
\* Err(NonceInvalid(word_size)) when the nonce or the counter is not word_size
\* bytes long, and the block [nonce, counter] when both are.
C14_NonceCounterValidation ==
    call.op = "parse_nonce_counter" =>
        LET nonce   == hex_decode(call.input[1])
            counter == hex_decode(call.input[2])
            ws      == word_size(cipher.val)
        IN  (nonce.tag = "Ok" /\ counter.tag = "Ok") =>
                IF Len(nonce.val) # ws \/ Len(counter.val) # ws
                THEN call.output = Err(NonceInvalid(ws))
                ELSE /\ call.output.tag = "Ok"
                     /\ to_bytes_slice(call.output.val[1]) = nonce.val
                     /\ to_bytes_slice(call.output.val[2]) = counter.val

\* C15: once the string decodes, parse_iv_from_hex returns
\* Err(IVinvalid(block_size)) when it is not block_size bytes long, and else
\* the block whose words are the little-endian decode of the two halves.
C15_IvValidation ==
    call.op = "parse_iv" =>
        LET iv   == hex_decode(call.input)
            ws   == word_size(cipher.val)
            size == block_size(cipher.val)
        IN  iv.tag = "Ok" =>
                IF Len(iv.val) # size
                THEN call.output = Err(IVinvalid(size))
                ELSE /\ call.output.tag = "Ok"
                     /\ to_bytes_slice(call.output.val[1]) = SubSeq(iv.val, 1, ws)
                     /\ to_bytes_slice(call.output.val[2]) = SubSeq(iv.val, ws + 1, size)

\* an upper-case hex string of block_size bytes has been parsed to a block,
\* at the widest word
C15_Witness ==
    /\ call.op = "parse_iv"
    /\ width = 128
    /\ call.input = HexWith(HexDigits, Ramp(2 * BYTES(width), 1))
    /\ call.output.tag = "Ok"
    /\ call.output.val[1] # call.output.val[2]

\* a string of twice block_size bytes has been turned down
C15_WitnessLong ==
    /\ call.op = "parse_iv"
    /\ Len(call.input) = 8 * BYTES(width)
    /\ call.output = Err(IVinvalid(2 * BYTES(width)))

\* C16: chunk k (k = 0, 1, ...) of ctr_encrypt's output is the input chunk
\* xor the encryption of the counter block [nonce, (last + k) mod 2^w]: only
\* the last word moves, by one a chunk, and it wraps to zero past the maximum.
C16_CtrCounterProgression ==
    call.op = "ctr_encrypt" =>
        LET cb   == cipher.val
            nc   == call.mode.block
            size == block_size(cb)
            inp  == call.input
            out  == call.output.val
            CounterAt(k) == <<nc[1], wrapping_add(nc[2], from_u8(k, width))>>
            KeyStream(k) ==
                LET e == encrypt(cb, CounterAt(k))
                IN  to_bytes_slice(e[1]) \o to_bytes_slice(e[2])
        IN  /\ Len(out) = Len(inp)
            /\ IF crate = "src"
               THEN \A k \in 1..Len(inp) :
                        out[k] = XorBlock(inp[k], encrypt(cb, CounterAt(k - 1)))
               ELSE \A k \in 0..((Len(inp) - 1) \div size) :
                        LET ks == KeyStream(k)
                        IN  \A j \in 1..Min(size, Len(inp) - k * size) :
                                out[k * size + j] = BitXor(inp[k * size + j], ks[j], 8)

\* ctr_encrypt of rc5-block has run over more than one chunk with the last
\* word of the counter block at its maximum, which wraps to zero
C16_Witness ==
    /\ call.op = "ctr_encrypt"
    /\ crate = "rc5-block"
    /\ call.mode.block[2] = MaxWord(width)
    /\ Len(call.input) > block_size(cipher.val)
    /\ call.output.tag = "Ok"
    /\ cipher.val.rounds > 0

\* C17: cbc_encrypt emits C_i = E(P_i xor C_(i-1)) with C_0 the iv, one
\* output block for each input block, in input order.
C17_CbcEncryptChaining ==
    call.op = "cbc_encrypt" =>
        LET inp == call.input
            out == call.output.val
        IN  /\ Len(out) = Len(inp)
            /\ \A i \in 1..Len(inp) :
                   out[i] = encrypt(cipher.val,
                                    XorBlock(inp[i],
                                             IF i = 1 THEN call.mode.block ELSE out[i - 1]))

\* cbc_encrypt has run over the most blocks drawn, with an iv that is not zero
C17_Witness ==
    /\ call.op = "cbc_encrypt"
    /\ Len(call.input) = MaxBlocks
    /\ call.mode.block = <<P(width), Q(width)>>
    /\ cipher.val.rounds > 0
    /\ call.output.val[1] # call.output.val[Len(call.output.val)]

\* C18: cbc_decrypt emits P_i = D(C_i) xor C_(i-1) with C_0 the iv, chaining
\* on the ciphertext block it was given, and so undoes cbc_encrypt under the
\* same iv.
C18_CbcDecryptChaining ==
    call.op = "cbc_decrypt" =>
        LET inp == call.input
            out == call.output.val
            iv  == call.mode.block
        IN  /\ Len(out) = Len(inp)
            /\ \A i \in 1..Len(inp) :
                   out[i] = XorBlock(decrypt(cipher.val, inp[i]),
                                     IF i = 1 THEN iv ELSE inp[i - 1])
            /\ cbc_decrypt(cipher.val, iv, cbc_encrypt(cipher.val, iv, inp)) = inp

\* cbc_decrypt has run over two or more blocks that are not all equal
C18_Witness ==
    /\ call.op = "cbc_decrypt"
    /\ Len(call.input) >= 2
    /\ call.input[1] # call.input[2]
    /\ cipher.val.rounds > 0

\* C19: block i of ecb_encrypt / ecb_decrypt is the single-block encrypt /
\* decrypt of input block i, so equal input blocks give equal output blocks,
\* and the output has as many blocks as the input.
C19_EcbIndependence ==
    call.op \in {"ecb_encrypt", "ecb_decrypt"} =>
        LET inp == call.input
            out == call.output.val
        IN  /\ Len(out) = Len(inp)
            /\ \A i \in 1..Len(inp) :
                   out[i] = IF call.op = "ecb_encrypt" THEN encrypt(cipher.val, inp[i])
                            ELSE decrypt(cipher.val, inp[i])
            /\ \A i, j \in 1..Len(inp) : inp[i] = inp[j] => out[i] = out[j]

\* ecb_encrypt has run over a message that holds the same block twice
C19_Witness ==
    /\ call.op = "ecb_encrypt"
    /\ Len(call.input) >= 2
    /\ call.input[1] = call.input[2]
    /\ call.input[1] # <<ZERO(width), ZERO(width)>>
    /\ cipher.val.rounds > 0

\* C20: Cipher.encrypt of L bytes returns L + bs - (L mod bs) bytes in ECB
\* and CBC and L bytes in CTR; the one block an empty message encrypts to
\* decrypts back to the empty message.
C20_CiphertextLength ==
    LET size == block_size(cipher.val)
    IN  /\ call.op = "encrypt" =>
              /\ call.output.tag = "Ok"
              /\ Len(call.output.val) =
                     IF call.mode.kind = "CTR" THEN Len(call.input)
                     ELSE Len(call.input) + size - (Len(call.input) % size)
        /\ (call.op = "decrypt" /\ call.mode.kind # "CTR" /\ call.sent = Ok(<<>>)) =>
              /\ Len(call.input) = size
              /\ call.output = Ok(<<>>)

C22_SharedCipherUnchanged ==
    DOMAIN callers = Callers =>
        /\ Built => (call.op = "new" /\ cipher = call.output)
        /\ \A t \in Callers :
               callers[t].pc = "done" =>
                   callers[t].result =
                       IF callers[t].op = "encrypt"
                       THEN FacadeEncrypt(crate, CbOf(callers[t]), callers[t].input,
                                          callers[t].mode)
                       ELSE FacadeDecrypt(crate, CbOf(callers[t]), callers[t].input,
                                          callers[t].mode)

\* on the shared control block, the first caller has decrypted a CBC
\* ciphertext to a message while the second is half way through a CTR call
C22_Witness ==
    /\ DOMAIN callers = Callers
    /\ ~callers[2].own
    /\ callers[1].pc = "done"
    /\ callers[1].op = "decrypt"
    /\ callers[1].mode.kind = "CBC"
    /\ callers[1].result.tag = "Ok"
    /\ Len(callers[1].result.val) > 0
    /\ callers[2].pc = "run"
    /\ callers[2].mode.kind = "CTR"
    /\ callers[2].out # <<>>
    /\ callers[2].pending # <<>>

\* C23: parametric_version() of a control block that was built is
\* "RC5-v1/{word_bits}/{rounds}/{key_len}" with the word width in bits, the
\* round count encrypt and decrypt use and the length of the key in bytes,
\* none of them truncated.
C23_VersionString ==
    (call.op = "new" /\ call.output.tag = "Ok") =>
        parametric_version(cipher.val) =
            <<"R", "C", "5", "-", "v", "1", "/">> \o Display(width) \o <<"/">>
            \o Display(cipher.val.rounds) \o <<"/">> \o Display(Len(call.input[1]))

\* C24: the S-table of an accepted round count r has 2 * (r + 1) words, and
\* every index the mixing loop (i, j) and the rounds of encrypt and decrypt
\* (0, 1, 2r, 2r + 1) are about to read lies inside its table.
C24_IndexSafety ==
    /\ Built => Len(cipher.val.s_table) = 2 * (cipher.val.rounds + 1)
    /\ frame.fn = "expand_key" =>
           /\ Len(frame.st.s_table) = 2 * (frame.rounds + 1)
           /\ frame.n < MixCount(frame.key, frame.rounds, width) =>
                  /\ frame.st.i \in 0..(Len(frame.st.s_table) - 1)
                  /\ frame.st.j \in 0..(Len(frame.st.key_words) - 1)
    /\ frame.fn \in {"encrypt", "decrypt"} =>
           /\ 1 < Len(cipher.val.s_table)
           /\ (\/ frame.fn = "encrypt" /\ frame.r <= cipher.val.rounds
               \/ frame.fn = "decrypt" /\ frame.r >= 1) =>
                  /\ frame.r >= 1
                  /\ 2 * frame.r + 1 < Len(cipher.val.s_table)

\* the mixing loop is about to read the last word of the S-table and the
\* last of several key words
C24_Witness ==
    /\ frame.fn = "expand_key"
    /\ frame.rounds = MaxRounds
    /\ frame.n < MixCount(frame.key, frame.rounds, width)
    /\ frame.st.i = Len(frame.st.s_table) - 1
    /\ frame.st.j = Len(frame.st.key_words) - 1
    /\ Len(frame.st.key_words) > 1

\* the state of expand_key when its mixing loop starts is the reference's:
\* the key bytes packed little-endian into ceil(len / BYTES) words, the
\* S-table seeded with P and steps of Q, the indices and accumulators zero
C25_Start ==
    LET u  == BYTES(width)
        c  == (Len(frame.key) + u - 1) \div u
        t  == 2 * (frame.rounds + 1)
        st == frame.st
    IN  /\ Len(st.key_words) = c
        /\ \A m \in 0..(c - 1) : \A k \in 0..(u - 1) :
               to_bytes_slice(st.key_words[m + 1])[k + 1]
                   = IF m * u + k < Len(frame.key) THEN frame.key[m * u + k + 1] ELSE 0
        /\ Len(st.s_table) = t
        /\ st.s_table[1] = P(width)
        /\ \A x \in 2..t : st.s_table[x] = wrapping_add(st.s_table[x - 1], Q(width))
        /\ st.i = 0 /\ st.j = 0
        /\ st.a = ZERO(width) /\ st.b = ZERO(width)

\* one step of the mixing loop is the reference's
C25_Mix ==
    LET st  == frame.st
        t   == Len(st.s_table)
        c   == Len(st.key_words)
        new == frame'.st
        a1  == rotate_left(wrapping_add(wrapping_add(st.s_table[st.i + 1], st.a), st.b),
                           from_u8(3, width))
        ab  == wrapping_add(a1, st.b)
        b1  == rotate_left(wrapping_add(st.key_words[st.j + 1], ab),
                           from_u8(ab[1] % width, width))
    IN  /\ frame'.n = frame.n + 1
        /\ frame.n < 3 * (IF t > c THEN t ELSE c)
        /\ new.a = a1 /\ new.b = b1
        /\ new.s_table = [x \in 1..t |-> IF x = st.i + 1 THEN a1 ELSE st.s_table[x]]
        /\ new.key_words = [x \in 1..c |-> IF x = st.j + 1 THEN b1 ELSE st.key_words[x]]
        /\ new.i = (st.i + 1) % t
        /\ new.j = (st.j + 1) % c

\* expand_key returns after exactly 3 * max(t, c) steps, with S
C25_Return ==
    LET t == Len(frame.st.s_table)
        c == Len(frame.st.key_words)
    IN  /\ frame.n = 3 * (IF t > c THEN t ELSE c)
        /\ cipher'.tag = "Ok"
        /\ cipher'.val.s_table = frame.st.s_table
        /\ cipher'.val.s_table = expand_key(frame.key, frame.rounds, width).val

\* C25: expand_key is the reference key schedule: little-endian packing into
\* c = ceil(len / word_bytes) words, S[0] = P and S[i] = S[i-1] + Q, then
\* exactly 3 * max(t, c) mixing steps a = rotl(S[i] + a + b, 3), S[i] = a,
\* b = rotl(L[j] + a + b, a + b), L[j] = b, i and j stepping modulo t and c,
\* and S returned.
C25_KeySchedule ==
    /\ [](frame.fn = "expand_key" /\ frame.n = 0 => C25_Start)
    /\ [][/\ frame.fn = "expand_key" /\ frame'.fn = "expand_key" => C25_Mix
          /\ frame.fn = "expand_key" /\ frame'.fn = "none" => C25_Return]_vars

\* a control block returned for a key of more words than the S-table has,
\* after the mixing loop has run three passes over the key words
C25_Witness ==
    /\ Built
    /\ frame.fn = "none"
    /\ cipher.val.rounds = 0
    /\ Len(cipher.val.raw_key) > 2 * BYTES(width)
    /\ cipher.val.s_table = expand_key(cipher.val.raw_key, 0, width).val

\* encrypt comes to its loop with A + S[0] and B + S[1], and round 1 next
C26_Start ==
    LET S == cipher.val.s_table
    IN  /\ frame'.r = 1
        /\ frame'.word_a = wrapping_add(frame'.input[1], S[1])
        /\ frame'.word_b = wrapping_add(frame'.input[2], S[2])

\* one round: A from the old A and B, then B from the old B and the new A
C26_Round ==
    LET S  == cipher.val.s_table
        r  == frame.r
        A  == frame.word_a
        B  == frame.word_b
        A1 == wrapping_add(RotlBits(Xor(A, B), B[1] % width), S[2 * r + 1])
        B1 == wrapping_add(RotlBits(Xor(B, A1), A1[1] % width), S[2 * r + 2])
    IN  /\ r \in 1..cipher.val.rounds
        /\ frame'.r = r + 1
        /\ frame'.word_a = A1
        /\ frame'.word_b = B1

\* encrypt returns [A, B] after round `rounds`; with no rounds that is
\* [A + S[0], B + S[1]]
C26_Return ==
    LET S == cipher.val.s_table
    IN  /\ frame.r = cipher.val.rounds + 1
        /\ call'.output = Ok(<<frame.word_a, frame.word_b>>)
        /\ call'.output.val = encrypt(cipher.val, frame.input)
        /\ cipher.val.rounds = 0 =>
               call'.output.val = <<wrapping_add(frame.input[1], S[1]),
                                    wrapping_add(frame.input[2], S[2])>>

\* C26: block encrypt is the reference round function: A = A + S[0],
\* B = B + S[1], then for r = 1..rounds in increasing order
\* A = rotl(A xor B, B mod w) + S[2r] and B = rotl(B xor A, A mod w) + S[2r+1]
\* with the A just updated; with rounds = 0 the result is [A + S[0], B + S[1]].
C26_RoundFunction ==
    [][/\ frame.fn = "none" /\ frame'.fn = "encrypt" => C26_Start
       /\ frame.fn = "encrypt" /\ frame'.fn = "encrypt" => C26_Round
       /\ frame.fn = "encrypt" /\ frame'.fn = "none" => C26_Return]_vars

\* encrypt has returned after its last round, of several, on a block whose
\* two words differ, under a 5-byte key
C26_Witness ==
    /\ call.op = "block_encrypt"
    /\ frame.fn = "none"
    /\ cipher.val.rounds = MaxRounds
    /\ Len(cipher.val.raw_key) = 5
    /\ call.input = <<P(width), Q(width)>>
    /\ call.output.val = encrypt(cipher.val, call.input)

\* byte k (from 0) of a word, by weight: the word's value over 256^k, modulo 256
ByteAt(x, k) == (x[(k \div 2) + 1] \div (IF k % 2 = 0 THEN 1 ELSE U8Range)) % U8Range

\* b, of whole blocks, is laid out block after block, word[0] before word[1],
\* each word little-endian, and comes back from its blocks
WholeBlocksLayout(b) ==
    LET u      == BYTES(width)
        blocks == generate_blocks(cipher.val, b)
    IN  /\ Len(blocks) * 2 * u = Len(b)
        /\ \A n \in 1..Len(blocks) : \A x \in 1..2 : \A k \in 0..(u - 1) :
               ByteAt(blocks[n][x], k) = b[(n - 1) * 2 * u + (x - 1) * u + k + 1]
        /\ generate_bytes_stream(blocks) = b

\* C28: generate_bytes_stream writes each block as word[0] then word[1], each
\* word little-endian in word_bytes bytes; for every byte string b of whole
\* blocks generate_bytes_stream(generate_blocks(b)) = b, and generate_blocks
\* makes exactly len(b) / block_size blocks, in order.  Checked on the whole
\* blocks of the caller's message and on the ciphertext encrypt returns.
C28_BlockByteLayout ==
    Built =>
        /\ WholeBlocksLayout(SubSeq(buf, 1, Len(buf) - (Len(buf) % block_size(cipher.val))))
        /\ call.op = "encrypt" /\ call.output.tag = "Ok" /\ call.mode.kind # "CTR" =>
               WholeBlocksLayout(call.output.val)

\* encrypt has returned several blocks of ciphertext for a message of
\* several whole blocks
C28_Witness ==
    /\ Built
    /\ Len(buf) = MaxBlocks * block_size(cipher.val)
    /\ call.op = "encrypt"
    /\ call.mode.kind = "CBC"
    /\ call.output.tag = "Ok"
    /\ Len(generate_blocks(cipher.val, call.output.val)) = MaxBlocks + 1
    /\ generate_bytes_stream(generate_blocks(cipher.val, buf)) = buf

\* C29: Cipher.decrypt in ECB or CBC on a ciphertext that is not a whole
\* number of blocks ignores the last, partial block: it returns Ok(plaintext)
\* or the Padding error, and exactly what it returns for the ciphertext cut
\* to its whole blocks.
C29_MisalignedIgnored ==
    LET blk   == block_size(cipher.val)
        whole == SubSeq(call.input, 1, Len(call.input) - (Len(call.input) % blk))
    IN  (call.op = "decrypt" /\ call.mode.kind # "CTR" /\ Len(call.input) % blk # 0) =>
            /\ \/ call.output.tag = "Ok"
               \/ call.output.tag = "Err" /\ call.output.err.kind = "Padding"
            /\ call.output = FacadeDecrypt(crate, cipher.val, whole, call.mode)

\* C30: whenever unpad returns the Padding error the buffer is as it was
\* passed in, the same length and the same bytes; it is shortened only when
\* unpad returns Ok.
C30_UnpadAllOrNothing ==
    call.op = "unpad" =>
        /\ (call.output.tag = "Err" /\ call.output.err.kind = "Padding") =>
               /\ Len(buf) = Len(call.input)
               /\ \A k \in 1..Len(buf) : buf[k] = call.input[k]
        /\ buf # call.input =>
               /\ call.output.tag = "Ok"
               /\ Len(buf) < Len(call.input)

\* unpad has turned down an aligned buffer whose last byte is a pad length
\* in range, for pad bytes that differ
C30_Witness ==
    /\ call.op = "unpad"
    /\ call.output.tag = "Err"
    /\ call.output.err.kind = "Padding"
    /\ Len(call.input) > 0
    /\ Len(call.input) % bs = 0
    /\ call.input[Len(call.input)] \in 2..bs
    /\ buf = call.input

\* C27: at every width P is the odd w-bit truncation of the binary expansion
\* of e - 2 (B7E1...) and Q that of the golden ratio less one (9E37...), the
\* same two expansions at the four widths.
C27_MagicConstants ==
    LET \* the first 128 bits of the two expansions, least significant limb first
        e   == <<62407, 40180, 22656, 49009, 10858, 35565, 20834, 47073>>
        phi == <<51253, 23789, 49248, 62364, 31765, 32586, 31161, 40503>>
        n   == NLimbs(width)
        OddTop(x) ==
            LET top == SubSeq(x, Len(x) - n + 1, Len(x))
            IN  [top EXCEPT ![1] = @ + 1 - (@ % 2)]
    IN  Built =>
            /\ P(width) = OddTop(e)
            /\ Q(width) = OddTop(phi)
            /\ P(width)[n] = 47073      \* B7E1
            /\ Q(width)[n] = 40503      \* 9E37

=============================================================================
